---- MODULE Spec2Model ----
(***************************************************************************)
(* Model of the Explainable Causal Reasoning Engine:                       *)
(*   - storage/vault.py   ExplainabilityVault (five append-only tables)    *)
(*   - causal/graph.py    CausalGraph (typed nodes and edges)              *)
(*   - causal/confidence.py  ConfidenceScorer                              *)
(*   - causal/graph_builder.py  GraphBuilder                               *)
(*   - causal/bias_detector.py  BiasDetector                               *)
(*   - agents/orchestrator.py  AgentOrchestrator.execute_pipeline          *)
(* Entity names and other texts that the code searches or lowercases are   *)
(* sequences of characters.                                                *)
(* Confidences are hundredths (0.85 is 85).  A SHA-256 / MD5 digest is     *)
(* modelled as an injective tagging of the digested value.                 *)
(***************************************************************************)
EXTENDS Integers, Sequences, FiniteSets, TLC

VARIABLES
    store,      \* vault: record kind -> sequence of rows, in id order
    lastCall,   \* vault: the most recent completed call and what it returned
    pending,    \* vault: run -> the log* call the run is inside (or Idle)
    nodes,      \* graph: node id -> node attributes (nx.DiGraph nodes)
    edges,      \* graph: <<source, target>> -> edge attributes
    gres        \* engine: the most recent call on the graph, the scorer, the
                \* bias detector or the builder, and what it returned

vaultVars == <<store, lastCall, pending>>
graphVars == <<nodes, edges, gres>>
vars == <<store, lastCall, pending, nodes, edges, gres>>

---------------------------------------------------------------------------
(* Bounds of the model *)

MaxRecords == 3     \* rows in the whole vault
MaxRef == 2         \* input_id / execution_id arguments range over 1..MaxRef
NumRuns == 2        \* concurrent pipeline runs writing to the vault
MaxNodes == 2       \* nodes of the graph
MaxEdges == 1       \* edges of the graph
MaxChain == 2       \* steps of a reasoning chain given to aggregate_chain
MaxLinks == 2       \* causal links a producer proposes in one run
MaxDocs == 4        \* documents the retriever returns
MaxRetries == 4     \* largest max_retries an LLMManager is built with

---------------------------------------------------------------------------
(* Explainability Vault *)

Kinds == {"Input", "AgentExecution", "CausalStep", "PolicyCheck", "Output"}

Sources == {"user"}
Contents == {"case-a", "case-b"}
AgentIds == {"causal_inference"}
Texts == {"t1", "t2"}
PolicyResults == {"pass", "fail"}
Refs == 1..MaxRef
Runs == 1..NumRuns

\* Column default of prev_hash / value of a missing row: Python None.
None == <<"None", "">>

\* _compute_hash: SHA-256 of the JSON dump of the data.
ComputeHash(data) == <<"sha256", data>>

Input(id, source, content, content_hash, prev_hash) ==
    [id |-> id, source |-> source, content |-> content,
     content_hash |-> content_hash, prev_hash |-> prev_hash]

AgentExecution(id, input_id, agent_id, agent_output, prev_hash) ==
    [id |-> id, input_id |-> input_id, agent_id |-> agent_id,
     agent_output |-> agent_output, prev_hash |-> prev_hash]

CausalStep(id, execution_id, conclusion, prev_hash) ==
    [id |-> id, execution_id |-> execution_id, conclusion |-> conclusion,
     prev_hash |-> prev_hash]

PolicyCheck(id, execution_id, result, prev_hash) ==
    [id |-> id, execution_id |-> execution_id, result |-> result,
     prev_hash |-> prev_hash]

Output(id, execution_id, conclusion, prev_hash) ==
    [id |-> id, execution_id |-> execution_id, conclusion |-> conclusion,
     prev_hash |-> prev_hash]

Rows(table) == {table[i] : i \in 1..Len(table)}

Ids(table) == {table[i].id : i \in 1..Len(table)}

TotalRecords == Len(store["Input"]) + Len(store["AgentExecution"])
                + Len(store["CausalStep"]) + Len(store["PolicyCheck"])
                + Len(store["Output"])

\* id = Column(Integer, primary_key=True, autoincrement=True): the next rowid.
NextId(table) ==
    IF table = <<>> THEN 1
    ELSE (CHOOSE m \in Ids(table) : \A j \in Ids(table) : j <= m) + 1

\* _get_last_hash: the row with the greatest id, and of it the prev_hash column.
GetLastHash(table) ==
    IF table = <<>> THEN None
    ELSE LET last_record ==
                 CHOOSE r \in Rows(table) : \A s \in Rows(table) : s.id <= r.id
         IN  last_record.prev_hash

\* content_hash = Column(String(64), nullable=False, unique=True)
ViolatesConstraint(kind, rec) ==
    /\ kind = "Input"
    /\ \E r \in Rows(store[kind]) : r.content_hash = rec.content_hash

\* Insert with the newest row of the kind written over instead of a row added.
Insert_Overwrite(st, kind, rec) ==
    [st EXCEPT ![kind] = IF @ = <<>> THEN <<rec>>
                         ELSE [@ EXCEPT ![Len(@)] = rec]]

\* session.add(record); session.commit()
Insert(st, kind, rec) ==
    [st EXCEPT ![kind] = Append(@, rec)]

\* Rollback that leaves the added row in the table.
Rollback_KeepsRow(st, kind, rec) ==
    [st EXCEPT ![kind] = Append(@, rec)]

\* except Exception: session.rollback(); raise
Rollback(st, kind, rec) ==
    st

NoTrail == [steps |-> <<>>, checks |-> <<>>, output |-> "None"]

LogResult(kind, outcome, id, fault) ==
    [op |-> "log", kind |-> kind, arg |-> 0, outcome |-> outcome, id |-> id,
     fault |-> fault, trail |-> NoTrail]

\* The try/except/finally body shared by the five log_* methods, after the row
\* object is built: add and commit, or roll back and re-raise.  fault is a
\* storage failure raised by the add or the commit.
AddAndCommit(kind, rec, fault) ==
    IF fault \/ ViolatesConstraint(kind, rec)
    THEN /\ store' = Rollback(store, kind, rec)
         /\ lastCall' = LogResult(kind, "error", 0, fault)
    ELSE /\ store' = Insert(store, kind, rec)
         /\ lastCall' = LogResult(kind, "ok", rec.id, fault)

\* The row a log_* call of the given kind builds; a is the source / input_id /
\* execution_id argument, b the content / output / conclusion / result.
NewRow(kind, a, b, prev_hash) ==
    LET id == NextId(store[kind]) IN
    CASE kind = "Input" -> Input(id, a, b, ComputeHash(b), prev_hash)
      [] kind = "AgentExecution" ->
             AgentExecution(id, a, CHOOSE g \in AgentIds : TRUE, b, prev_hash)
      [] kind = "CausalStep" -> CausalStep(id, a, b, prev_hash)
      [] kind = "PolicyCheck" -> PolicyCheck(id, a, b, prev_hash)
      [] kind = "Output" -> Output(id, a, b, prev_hash)

ArgsA(kind) == IF kind = "Input" THEN Sources ELSE Refs

ArgsB(kind) ==
    CASE kind = "Input" -> Contents
      [] kind = "PolicyCheck" -> PolicyResults
      [] OTHER -> Texts

Idle == [kind |-> "idle", prev_hash |-> None]

NoRunInside == \A run \in Runs : pending[run] = Idle

(* One caller: each log_* call runs from SessionLocal() to session.close() *)
(* with no other call in between.                                         *)

LogInput(source, content, fault) ==
    /\ NoRunInside
    /\ TotalRecords < MaxRecords
    /\ AddAndCommit("Input",
           NewRow("Input", source, content, GetLastHash(store["Input"])), fault)
    /\ UNCHANGED <<pending, graphVars>>

LogAgentExecution(input_id, agent_output, fault) ==
    /\ NoRunInside
    /\ TotalRecords < MaxRecords
    /\ AddAndCommit("AgentExecution",
           NewRow("AgentExecution", input_id, agent_output,
                  GetLastHash(store["AgentExecution"])), fault)
    /\ UNCHANGED <<pending, graphVars>>

LogCausalStep(execution_id, conclusion, fault) ==
    /\ NoRunInside
    /\ TotalRecords < MaxRecords
    /\ AddAndCommit("CausalStep",
           NewRow("CausalStep", execution_id, conclusion,
                  GetLastHash(store["CausalStep"])), fault)
    /\ UNCHANGED <<pending, graphVars>>

LogPolicyCheck(execution_id, result, fault) ==
    /\ NoRunInside
    /\ TotalRecords < MaxRecords
    /\ AddAndCommit("PolicyCheck",
           NewRow("PolicyCheck", execution_id, result,
                  GetLastHash(store["PolicyCheck"])), fault)
    /\ UNCHANGED <<pending, graphVars>>

LogOutput(execution_id, conclusion, fault) ==
    /\ NoRunInside
    /\ TotalRecords < MaxRecords
    /\ AddAndCommit("Output",
           NewRow("Output", execution_id, conclusion,
                  GetLastHash(store["Output"])), fault)
    /\ UNCHANGED <<pending, graphVars>>

\* filter_by(...).all() / .first(): the matching rows in id order.
SelectBy(table, field, value) ==
    SelectSeq(table, LAMBDA r : r[field] = value)

\* The lookup made on the causal steps that reference the id.
FindExecution_ByCausalStep(st, execution_id) ==
    SelectBy(st["CausalStep"], "execution_id", execution_id)

\* session.query(AgentExecution).filter_by(id=execution_id).first()
FindExecution(st, execution_id) ==
    SelectBy(st["AgentExecution"], "id", execution_id)

TrailOf(st, execution_id) ==
    LET outs == SelectBy(st["Output"], "execution_id", execution_id) IN
    [steps |-> [i \in 1..Len(SelectBy(st["CausalStep"], "execution_id", execution_id))
                   |-> SelectBy(st["CausalStep"], "execution_id", execution_id)[i].conclusion],
     checks |-> [i \in 1..Len(SelectBy(st["PolicyCheck"], "execution_id", execution_id))
                   |-> SelectBy(st["PolicyCheck"], "execution_id", execution_id)[i].result],
     output |-> IF outs = <<>> THEN "None" ELSE outs[1].conclusion]

GetReasoningTrail(execution_id) ==
    /\ NoRunInside
    /\ IF FindExecution(store, execution_id) = <<>>
       THEN lastCall' = [op |-> "trail", kind |-> "AgentExecution",
                         arg |-> execution_id, outcome |-> "error", id |-> 0,
                         fault |-> FALSE, trail |-> NoTrail]
       ELSE lastCall' = [op |-> "trail", kind |-> "AgentExecution",
                         arg |-> execution_id, outcome |-> "ok",
                         id |-> FindExecution(store, execution_id)[1].id,
                         fault |-> FALSE, trail |-> TrailOf(store, execution_id)]
    /\ UNCHANGED <<store, pending, graphVars>>

(* Several callers: a log_* call is two database statements, the SELECT of *)
(* _get_last_hash and the INSERT of the commit; nothing holds a lock over  *)
(* the pair.                                                               *)

ReadLastHash(run, kind) ==
    /\ pending[run] = Idle
    /\ TotalRecords + Cardinality({r \in Runs : pending[r] # Idle}) < MaxRecords
    /\ pending' = [pending EXCEPT ![run] =
                       [kind |-> kind, prev_hash |-> GetLastHash(store[kind])]]
    /\ UNCHANGED <<store, lastCall, graphVars>>

AddCommitClose(run, fault) ==
    /\ pending[run] # Idle
    /\ \E a \in ArgsA(pending[run].kind), b \in ArgsB(pending[run].kind) :
           AddAndCommit(pending[run].kind,
               NewRow(pending[run].kind, a, b, pending[run].prev_hash), fault)
    /\ pending' = [pending EXCEPT ![run] = Idle]
    /\ UNCHANGED graphVars

---------------------------------------------------------------------------
(* Causal Graph *)

NodeTypes == {"symptom", "diagnosis", "treatment", "outcome", "evidence"}
EdgeTypes == {"causes", "treated_by", "leads_to", "supports"}
CausalStrengths == {"weak", "moderate", "strong"}

NodeTypeArgs == {"symptom", "diagnosis"}
NodeContents == {"fever"}
ConfValues == {20, 90, 150}
EdgeTypeArgs == {"causes"}
StrengthArgs == {"moderate"}
Thresholds == {30, 90}

\* hashlib.md5(text).hexdigest()[:8] of the text f"{node_type}:{content}"
Md5(node_type, content) == <<node_type, content>>

\* A node id: a prefix and a digest.  NoNode stands for node_id=None.
NoNode == [prefix |-> "None", digest |-> <<"None", "None">>]

\* Ids a caller passes as node_id; none of them has the form of a derived id.
ExplicitIds == {[prefix |-> "custom", digest |-> <<"custom", "n1">>]}

\* An id whose digest also depends on the confidence passed to add_node.
GenerateNodeId_WithConfidence(content, node_type, confidence) ==
    [prefix |-> node_type,
     digest |-> <<node_type, IF confidence < 50 THEN "low" ELSE content>>]

\* _generate_node_id: f"{node_type.value}_{content_hash}"; the confidence of
\* the call is no part of the digested text.
GenerateNodeId(content, node_type, confidence) ==
    [prefix |-> node_type, digest |-> Md5(node_type, content)]

DerivedIds == {[prefix |-> t, digest |-> Md5(t, c)] :
                   <<t, c>> \in NodeTypeArgs \X NodeContents}

NodeIds == DerivedIds \cup ExplicitIds

EmptyMap == [x \in {} |-> x]

\* CausalNode(...).to_dict(); metadata and timestamp are carried along like
\* the fields kept here and are left out.
CausalNode(node_id, node_type, content, confidence) ==
    [node_id |-> node_id, node_type |-> node_type, content |-> content,
     confidence |-> confidence]

\* CausalEdge(...).to_dict(): the endpoints are fields of the edge data too;
\* evidence_refs, reasoning_type and metadata are carried along like the
\* fields kept here and are left out.
CausalEdge(source, target, edge_type, confidence, causal_strength) ==
    [source |-> source, target |-> target, edge_type |-> edge_type,
     confidence |-> confidence, causal_strength |-> causal_strength]

\* nx.DiGraph.add_node(n, **attr): a new key, or the attributes of an old one
\* updated.
NxAddNode(ns, id, attrs) ==
    [n \in DOMAIN ns \cup {id} |-> IF n = id THEN attrs ELSE ns[n]]

\* nx.DiGraph.add_edge(u, v, **attr): endpoints that are no nodes yet become
\* nodes without attributes.
NxAddEdgeNodes(ns, u, v) ==
    [n \in DOMAIN ns \cup {u, v} |-> IF n \in DOMAIN ns THEN ns[n] ELSE EmptyMap]

NxAddEdge(es, u, v, attrs) ==
    [e \in DOMAIN es \cup {<<u, v>>} |-> IF e = <<u, v>> THEN attrs ELSE es[e]]

AddNode(content, node_type, confidence, node_id) ==
    LET id == IF node_id = NoNode
              THEN GenerateNodeId(content, node_type, confidence)
              ELSE node_id
    IN  /\ id \in DOMAIN nodes \/ Cardinality(DOMAIN nodes) < MaxNodes
        /\ nodes' = NxAddNode(nodes, id,
                          CausalNode(id, node_type, content, confidence))
        /\ gres' = [op |-> "add_node", outcome |-> "ok", content |-> content,
                    node_type |-> node_type, confidence |-> confidence,
                    node_id |-> node_id, ret |-> id]
        /\ UNCHANGED <<edges, vaultVars>>

\* The endpoint check with the test of the target left out.
EndpointsPresent_SourceOnly(source, target) ==
    source \in DOMAIN nodes

\* if source not in self.graph.nodes: raise ...; if target not in ...: raise ...
EndpointsPresent(source, target) ==
    source \in DOMAIN nodes /\ target \in DOMAIN nodes

AddEdge(source, target, edge_type, confidence, causal_strength) ==
    /\ IF ~EndpointsPresent(source, target)
       THEN /\ gres' = [op |-> "add_edge", outcome |-> "error",
                        source |-> source, target |-> target]
            /\ UNCHANGED <<nodes, edges>>
       ELSE /\ <<source, target>> \in DOMAIN edges
                   \/ Cardinality(DOMAIN edges) < MaxEdges
            /\ nodes' = NxAddEdgeNodes(nodes, source, target)
            /\ edges' = NxAddEdge(edges, source, target,
                            CausalEdge(source, target, edge_type, confidence,
                                       causal_strength))
            /\ gres' = [op |-> "add_edge", outcome |-> "ok",
                        source |-> source, target |-> target,
                        edge_type |-> edge_type, confidence |-> confidence,
                        causal_strength |-> causal_strength,
                        ret |-> <<source, target>>]
    /\ UNCHANGED vaultVars

\* A prune that also removes the edges whose confidence equals the threshold.
PruneLowConfidence_Inclusive(threshold) ==
    LET edges_to_remove == {e \in DOMAIN edges : edges[e].confidence <= threshold}
    IN  /\ edges' = [e \in DOMAIN edges \ edges_to_remove |-> edges[e]]
        /\ gres' = [op |-> "prune", outcome |-> "ok", threshold |-> threshold,
                    ret |-> Cardinality(edges_to_remove)]
        /\ UNCHANGED <<nodes, vaultVars>>

\* prune_low_confidence
PruneLowConfidence(threshold) ==
    LET edges_to_remove == {e \in DOMAIN edges : edges[e].confidence < threshold}
    IN  /\ edges' = [e \in DOMAIN edges \ edges_to_remove |-> edges[e]]
        /\ gres' = [op |-> "prune", outcome |-> "ok", threshold |-> threshold,
                    ret |-> Cardinality(edges_to_remove)]
        /\ UNCHANGED <<nodes, vaultVars>>

(* Diagnostics *)

\* The nodes reached from the set S along edges of E, S included.
RECURSIVE Closure(_, _)
Closure(E, S) ==
    LET T == S \cup {e[2] : e \in {x \in E : x[1] \in S}}
    IN  IF T = S THEN S ELSE Closure(E, T)

\* has_cycles: nx.find_cycle returns a cycle, or raises NetworkXNoCycle which
\* has_cycles turns into False.
HasCyclesValue(ns, es) ==
    \E n \in DOMAIN ns :
        n \in Closure(DOMAIN es, {e[2] : e \in {x \in DOMAIN es : x[1] = n}})

\* The edges of E with each one's reverse: the undirected view.
Undirected(E) == E \cup {<<e[2], e[1]>> : e \in E}

\* is_connected: nx.is_weakly_connected raises NetworkXPointlessConcept on a
\* graph without nodes, and is_connected does not catch it.
IsConnectedValue(ns, es) ==
    IF DOMAIN ns = {}
    THEN [outcome |-> "error", error |-> "NetworkXPointlessConcept"]
    ELSE [outcome |-> "ok",
          ret |-> \A n \in DOMAIN ns :
                      Closure(Undirected(DOMAIN es), {n}) = DOMAIN ns]

\* nx.density of a directed graph: 0 without edges or with at most one node,
\* else m / (n * (n - 1)); kept as the pair of a numerator and a denominator.
Density(ns, es) ==
    IF Cardinality(DOMAIN es) = 0 \/ Cardinality(DOMAIN ns) <= 1
    THEN <<0, 1>>
    ELSE <<Cardinality(DOMAIN es),
           Cardinality(DOMAIN ns) * (Cardinality(DOMAIN ns) - 1)>>

\* find_nodes_by_type; a node without attributes has no type.
FindNodesByType(ns, node_type) ==
    {n \in DOMAIN ns : "node_type" \in DOMAIN ns[n] /\ ns[n].node_type = node_type}

\* get_stats: the dict, or the exception of is_connected.
GetStatsValue(ns, es) ==
    IF IsConnectedValue(ns, es).outcome = "error"
    THEN [outcome |-> "error", error |-> IsConnectedValue(ns, es).error]
    ELSE [outcome |-> "ok",
          num_nodes |-> Cardinality(DOMAIN ns),
          num_edges |-> Cardinality(DOMAIN es),
          nodes_by_type |-> [t \in NodeTypes |->
                                Cardinality(FindNodesByType(ns, t))],
          has_cycles |-> HasCyclesValue(ns, es),
          is_connected |-> IsConnectedValue(ns, es).ret,
          density |-> Density(ns, es)]

HasCycles ==
    /\ gres' = [op |-> "has_cycles", outcome |-> "ok",
                ret |-> HasCyclesValue(nodes, edges)]
    /\ UNCHANGED <<nodes, edges, vaultVars>>

IsConnected ==
    /\ gres' = [op |-> "is_connected"] @@ IsConnectedValue(nodes, edges)
    /\ UNCHANGED <<nodes, edges, vaultVars>>

GetStats ==
    /\ gres' = [op |-> "stats", ret |-> GetStatsValue(nodes, edges),
                outcome |-> GetStatsValue(nodes, edges).outcome]
    /\ UNCHANGED <<nodes, edges, vaultVars>>

(* Serialization *)

\* The id and the creation time the graph object got in __init__.
GraphId == "g1"
GenerateId == "generated"
CreatedAt == <<"datetime", 7>>

\* datetime.isoformat() and datetime.fromisoformat()
IsoFormat(dt) == <<"iso", dt[2]>>
FromIsoFormat(text) == <<"datetime", text[2]>>

\* The graph object: graph_id, created_at and the networkx graph.
ThisGraph ==
    [graph_id |-> GraphId, created_at |-> CreatedAt,
     nodes |-> nodes, edges |-> edges]

\* {**a, **b}: the keys of both, b's value where both have the key.
DictMerge(a, b) ==
    [k \in DOMAIN a \cup DOMAIN b |-> IF k \in DOMAIN b THEN b[k] ELSE a[k]]

\* The dict left after d.pop(k) for each k of keys.
DictPop(d, keys) == [k \in DOMAIN d \ keys |-> d[k]]

\* to_dict: the node and edge lists are kept as sets, their order plays no
\* part in from_dict since ids and endpoint pairs are distinct.
ToDict(g) ==
    [graph_id |-> g.graph_id,
     created_at |-> IsoFormat(g.created_at),
     nodes |-> {DictMerge([id |-> n], g.nodes[n]) : n \in DOMAIN g.nodes},
     edges |-> {DictMerge([source |-> e[1], target |-> e[2]], g.edges[e]) :
                    e \in DOMAIN g.edges}]

\* from_dict: "id" is popped from each node dict, "source" and "target" from
\* each edge dict, and what is left becomes the attributes.
FromDict(data) ==
    LET ids == {nd.id : nd \in data.nodes}
        pairs == {<<ed.source, ed.target>> : ed \in data.edges}
        added == [n \in ids |->
                     DictPop(CHOOSE nd \in data.nodes : nd.id = n, {"id"})]
    IN  [graph_id |-> IF data.graph_id = "" THEN GenerateId ELSE data.graph_id,
         created_at |-> FromIsoFormat(data.created_at),
         nodes |-> [n \in ids \cup {e[1] : e \in pairs} \cup {e[2] : e \in pairs}
                       |-> IF n \in ids THEN added[n] ELSE EmptyMap],
         edges |-> [e \in pairs |->
                       DictPop(CHOOSE ed \in data.edges :
                                   <<ed.source, ed.target>> = e,
                               {"source", "target"})]]

\* The document after from_dict(data): the dicts of its lists are the very
\* objects the pops were made on.
DocumentAfter(data) ==
    [data EXCEPT !.nodes = {DictPop(nd, {"id"}) : nd \in data.nodes},
                 !.edges = {DictPop(ed, {"source", "target"}) :
                                ed \in data.edges}]

\* dict.pop(key) raises KeyError for a key the dict does not hold.
PopsSucceed(data) ==
    /\ \A nd \in data.nodes : "id" \in DOMAIN nd
    /\ \A ed \in data.edges : {"source", "target"} \subseteq DOMAIN ed

\* doc = graph.to_dict(): the caller holds the document.
ToDictCall ==
    /\ gres' = [op |-> "to_dict", outcome |-> "ok", doc |-> ToDict(ThisGraph)]
    /\ UNCHANGED <<nodes, edges, vaultVars>>

\* CausalGraph.from_dict(doc) on the document the caller holds: given is the
\* document before the call and doc the document after it.
FromDictCall ==
    /\ gres.op \in {"to_dict", "from_dict"}
    /\ gres' = IF PopsSucceed(gres.doc)
               THEN [op |-> "from_dict", outcome |-> "ok",
                     given |-> gres.doc, doc |-> DocumentAfter(gres.doc),
                     ret |-> FromDict(gres.doc)]
               ELSE [op |-> "from_dict", outcome |-> "error",
                     error |-> "KeyError",
                     given |-> gres.doc, doc |-> gres.doc]
    /\ UNCHANGED <<nodes, edges, vaultVars>>

---------------------------------------------------------------------------
(* Confidence Scorer *)

\* Factor weights, in hundredths.
WEIGHTS ==
    [evidence_quality |-> 40, reasoning_coherence |-> 30,
     llm_confidence |-> 20, context_match |-> 10]

THRESHOLD_HIGH == 80
THRESHOLD_MEDIUM == 60
THRESHOLD_LOW == 40
DECAY_FACTOR == 95

FactorValues == {-10, 0, 50, 100, 110}
ChainValues == {0, 50, 90}
LevelInputs == {-5, 0, 39, 40, 59, 60, 79, 80, 100, 120}

\* The validation with the lower bound left out.
ValidFactor_NoLowerBound(value) == value <= 100

\* 0.0 <= value <= 1.0
ValidFactor(value) == 0 <= value /\ value <= 100

\* The weighted sum of calculate, in ten-thousandths (hundredths of a factor
\* times hundredths of a weight).
WeightedSum(evidence_quality, reasoning_coherence, llm_confidence, context_match) ==
    evidence_quality * WEIGHTS.evidence_quality
    + reasoning_coherence * WEIGHTS.reasoning_coherence
    + llm_confidence * WEIGHTS.llm_confidence
    + context_match * WEIGHTS.context_match

Calculate(evidence_quality, reasoning_coherence, llm_confidence, context_match) ==
    /\ gres' = IF \E value \in {evidence_quality, reasoning_coherence,
                                 llm_confidence, context_match} :
                      ~ValidFactor(value)
               THEN [op |-> "calculate", outcome |-> "error",
                     e |-> evidence_quality, r |-> reasoning_coherence,
                     l |-> llm_confidence, c |-> context_match]
               ELSE [op |-> "calculate", outcome |-> "ok",
                     e |-> evidence_quality, r |-> reasoning_coherence,
                     l |-> llm_confidence, c |-> context_match,
                     ret |-> WeightedSum(evidence_quality, reasoning_coherence,
                                         llm_confidence, context_match)]
    /\ UNCHANGED <<nodes, edges, vaultVars>>

RECURSIVE Pow(_, _)
Pow(b, n) == IF n = 0 THEN 1 ELSE b * Pow(b, n - 1)

RECURSIVE GCD(_, _)
GCD(a, b) == IF b = 0 THEN a ELSE GCD(b, a % b)

\* A score as a fraction num / den in lowest terms, so that equal scores are
\* equal records.
Frac(num, den) ==
    [num |-> num \div GCD(num, den), den |-> den \div GCD(num, den)]
FracLess(a, b) == a.num * b.den < b.num * a.den

\* The first element taken for the minimum.
ChainMin_First(confidences) == confidences[1]

\* min(confidences)
ChainMin(confidences) ==
    CHOOSE m \in {confidences[i] : i \in 1..Len(confidences)} :
        \A i \in 1..Len(confidences) : m <= confidences[i]

\* aggregate_chain: 0.0 for an empty chain, else the minimum, times
\* DECAY_FACTOR ** len(confidences) with use_decay.
AggregateChainValue(confidences, use_decay) ==
    IF confidences = <<>> THEN Frac(0, 100)
    ELSE IF use_decay
         THEN Frac(ChainMin(confidences) * Pow(DECAY_FACTOR, Len(confidences)),
                   100 * Pow(100, Len(confidences)))
         ELSE Frac(ChainMin(confidences), 100)

AggregateChain(confidences, use_decay) ==
    /\ gres' = [op |-> "aggregate_chain", outcome |-> "ok",
                confidences |-> confidences, use_decay |-> use_decay,
                ret |-> AggregateChainValue(confidences, use_decay)]
    /\ UNCHANGED <<nodes, edges, vaultVars>>

\* The classification with the high band open at its lower end.
LevelOf_HighExclusive(confidence) ==
    IF confidence > THRESHOLD_HIGH THEN "high"
    ELSE IF confidence >= THRESHOLD_MEDIUM THEN "medium"
    ELSE IF confidence >= THRESHOLD_LOW THEN "low"
    ELSE "insufficient"

\* The if / elif chain of get_level.
LevelOf(confidence) ==
    IF confidence >= THRESHOLD_HIGH THEN "high"
    ELSE IF confidence >= THRESHOLD_MEDIUM THEN "medium"
    ELSE IF confidence >= THRESHOLD_LOW THEN "low"
    ELSE "insufficient"

GetLevel(confidence) ==
    /\ gres' = [op |-> "get_level", outcome |-> "ok",
                confidence |-> confidence, ret |-> LevelOf(confidence)]
    /\ UNCHANGED <<nodes, edges, vaultVars>>

\* The chains of at most n steps.
Chains(n) == UNION {[1..k -> ChainValues] : k \in 0..n}

---------------------------------------------------------------------------
(* Graph Builder *)

Tic == <<"t", "i", "c">>
Flu == <<"f", "l", "u">>
Unknown == <<"x">>
Causes == <<"c", "a", "u", "s", "e", "s">>
DocText == <<"d", "o", "c">>

\* The outputs of the producers that reach build_from_results.
SymptomLists == {<<>>, <<Tic>>}
DiagnosisLists == {<<>>, <<Flu>>}
TreatmentLists == {<<>>}
OutcomeLists == {<<>>}
ContextOutputs == {<<>>, <<[text |-> DocText, score |-> 60]>>}
LinkEntities == {Tic, Flu, Unknown}
LinkConfidences == {20, 90}
Relationships == {Causes}

EvidenceOutputs ==
    [symptoms : SymptomLists, diagnoses : DiagnosisLists,
     treatments : TreatmentLists, outcomes : OutcomeLists]

\* One proposed link: {"from", "to", "relationship", "confidence"}.
ProposedLinks ==
    [from : LinkEntities, to : LinkEntities, relationship : Relationships,
     confidence : LinkConfidences]

CausalChains(n) == UNION {[1..k -> ProposedLinks] : k \in 0..n}

\* Documents of the retriever: a short text under two scores, and two texts
\* of 101 characters with the same first 100.
LongPrefix == [i \in 1..100 |-> "a"]
LongA == LongPrefix \o <<"x">>
LongB == LongPrefix \o <<"y">>

RetrievedDocs ==
    {[text |-> DocText, score |-> 60], [text |-> DocText, score |-> 40],
     [text |-> LongA, score |-> 60], [text |-> LongB, score |-> 40]}

DocLists(n) == UNION {[1..k -> RetrievedDocs] : k \in 0..n}

DiagnosisOrders == {<<>>, <<Flu>>, <<Tic, Flu>>}

\* Entities for the resolution of links: a symptom whose name contains the
\* name of the diagnosis, a capitalised spelling, and the empty text.
Flus == <<"f", "l", "u", "s">>
FluCapital == <<"F", "l", "u">>
EmptyText == <<>>

ResolveOutputs ==
    [symptoms : {<<>>, <<Flus>>}, diagnoses : {<<>>, <<Flu>>},
     treatments : {<<>>}, outcomes : {<<>>}]

ResolveEntities == {EmptyText, FluCapital, Unknown}

\* Links with every field, and a link without its "from" field.
ResolveLinks ==
    [from : ResolveEntities, to : ResolveEntities, relationship : {Causes},
     confidence : {90}]
    \cup {[to |-> Flu, relationship |-> Causes, confidence |-> 90]}

ResolveChains(n) == UNION {[1..k -> ResolveLinks] : k \in 0..n}

\* str.lower() on the letters in use.
LowerChar(c) ==
    CASE c = "F" -> "f"
      [] c = "T" -> "t"
      [] c = "C" -> "c"
      [] c = "M" -> "m"
      [] OTHER -> c

ToLower(text) == [i \in 1..Len(text) |-> LowerChar(text[i])]

\* needle in hay
Contains(needle, hay) ==
    \E i \in 0..(Len(hay) - Len(needle)) :
        SubSeq(hay, i + 1, i + Len(needle)) = needle

\* text[:n]
Truncate(text, n) == SubSeq(text, 1, IF Len(text) < n THEN Len(text) ELSE n)

Front(list) == SubSeq(list, 1, Len(list) - 1)
Last(list) == list[Len(list)]

\* d[key] = value on a dict kept as the sequence of its items in insertion
\* order.
DictSet(d, key, value) ==
    IF \E i \in 1..Len(d) : d[i].key = key
    THEN [i \in 1..Len(d) |->
             IF d[i].key = key THEN [key |-> key, value |-> value] ELSE d[i]]
    ELSE Append(d, [key |-> key, value |-> value])

\* Steps 1-4, the dict of a category: entity -> node id.
RECURSIVE EntityPool(_, _)
EntityPool(entities, node_type) ==
    IF entities = <<>> THEN <<>>
    ELSE DictSet(EntityPool(Front(entities), node_type), Last(entities),
                 GenerateNodeId(Last(entities), node_type, 0))

\* Steps 1-4, the nodes of a category added to the graph.
RECURSIVE AddEntityNodes(_, _, _, _)
AddEntityNodes(ns, entities, node_type, confidence) ==
    IF entities = <<>> THEN ns
    ELSE NxAddNode(AddEntityNodes(ns, Front(entities), node_type, confidence),
                   GenerateNodeId(Last(entities), node_type, confidence),
                   CausalNode(GenerateNodeId(Last(entities), node_type, confidence),
                              node_type, Last(entities), confidence))

\* Step 5, the evidence nodes of the top 3 documents.
RECURSIVE AddEvidenceNodes(_, _)
AddEvidenceNodes(ns, docs) ==
    IF docs = <<>> THEN ns
    ELSE NxAddNode(AddEvidenceNodes(ns, Front(docs)),
                   GenerateNodeId(Truncate(Last(docs).text, 100), "evidence",
                                  Last(docs).score),
                   CausalNode(GenerateNodeId(Truncate(Last(docs).text, 100),
                                             "evidence", Last(docs).score),
                              "evidence", Truncate(Last(docs).text, 100),
                              Last(docs).score))

\* evidence_nodes: document index -> node id, as the sequence of the ids.
EvidenceIds(docs) ==
    [i \in 1..Len(docs) |->
        GenerateNodeId(Truncate(docs[i].text, 100), "evidence", docs[i].score)]

\* The four dicts _find_node_id searches, in the order of the call.
NodeDicts(evidence_output) ==
    EntityPool(evidence_output.symptoms, "symptom")
    \o EntityPool(evidence_output.diagnoses, "diagnosis")
    \o EntityPool(evidence_output.treatments, "treatment")
    \o EntityPool(evidence_output.outcomes, "outcome")

\* _find_node_id: the first key that equals the entity or contains it,
\* both lowercased.
FindNodeId(entity, node_dicts) ==
    LET hits == {i \in 1..Len(node_dicts) :
                    \/ ToLower(node_dicts[i].key) = ToLower(entity)
                    \/ Contains(ToLower(entity), ToLower(node_dicts[i].key))}
    IN  IF hits = {} THEN NoNode
        ELSE node_dicts[CHOOSE i \in hits : \A j \in hits : i <= j].value

\* _determine_edge_type
DetermineEdgeType(relationship) ==
    IF \/ Contains(<<"c", "a", "u", "s", "e">>, ToLower(relationship))
       \/ Contains(<<"l", "e", "a", "d", "s", " ", "t", "o">>, ToLower(relationship))
    THEN "causes"
    ELSE IF Contains(<<"t", "r", "e", "a", "t">>, ToLower(relationship))
    THEN "treated_by"
    ELSE IF \/ Contains(<<"r", "e", "s", "u", "l", "t">>, ToLower(relationship))
            \/ Contains(<<"o", "u", "t", "c", "o", "m", "e">>, ToLower(relationship))
    THEN "leads_to"
    ELSE "supports"

\* _determine_causal_strength
DetermineCausalStrength(confidence) ==
    IF confidence >= 80 THEN "strong"
    ELSE IF confidence >= 60 THEN "moderate"
    ELSE "weak"

\* chain.get(key, default)
ChainGet(chain, key, default) ==
    IF key \in DOMAIN chain THEN chain[key] ELSE default

\* Step 6: for each link in order, resolve both entities and, when both
\* resolve, add_edge; a ValueError of add_edge is logged and the link skipped.
RECURSIVE AddCausalEdges(_, _, _, _)
AddCausalEdges(es, ns, chains, node_dicts) ==
    IF chains = <<>> THEN es
    ELSE LET prev == AddCausalEdges(es, ns, Front(chains), node_dicts)
             chain == Last(chains)
             confidence == ChainGet(chain, "confidence", 50)
             source_id == FindNodeId(ChainGet(chain, "from", <<>>), node_dicts)
             target_id == FindNodeId(ChainGet(chain, "to", <<>>), node_dicts)
         IN  IF source_id # NoNode /\ target_id # NoNode
                /\ source_id \in DOMAIN ns /\ target_id \in DOMAIN ns
             THEN NxAddEdge(prev, source_id, target_id,
                      CausalEdge(source_id, target_id,
                                 DetermineEdgeType(
                                     ChainGet(chain, "relationship", <<>>)),
                                 confidence,
                                 DetermineCausalStrength(confidence)))
             ELSE prev

\* Step 7: each evidence node supports the first diagnosis.
RECURSIVE AddSupportEdges(_, _, _)
AddSupportEdges(es, evidence_ids, diagnosis_nodes) ==
    IF evidence_ids = <<>> \/ diagnosis_nodes = <<>> THEN es
    ELSE NxAddEdge(AddSupportEdges(es, Front(evidence_ids), diagnosis_nodes),
                   Last(evidence_ids), diagnosis_nodes[1].value,
                   CausalEdge(Last(evidence_ids), diagnosis_nodes[1].value,
                              "supports", 70, "moderate"))

\* Step 8: prune_low_confidence(threshold=0.3) on the edges.
Pruned(es, threshold) ==
    [e \in {x \in DOMAIN es : ~(es[x].confidence < threshold)} |-> es[e]]

\* The graph after steps 1-8.
BuiltGraph(evidence_output, context_output, causal_output) ==
    LET ns == AddEvidenceNodes(
                  AddEntityNodes(
                      AddEntityNodes(
                          AddEntityNodes(
                              AddEntityNodes(EmptyMap, evidence_output.symptoms,
                                             "symptom", 85),
                              evidence_output.diagnoses, "diagnosis", 80),
                          evidence_output.treatments, "treatment", 75),
                      evidence_output.outcomes, "outcome", 70),
                  Truncate(context_output, 3))
        es == AddSupportEdges(
                  AddCausalEdges(EmptyMap, ns, causal_output,
                                 NodeDicts(evidence_output)),
                  EvidenceIds(Truncate(context_output, 3)),
                  EntityPool(evidence_output.diagnoses, "diagnosis"))
    IN  [nodes |-> ns, edges |-> Pruned(es, 30)]

\* build_from_results: steps 1-8, then get_stats (step 9), whose exception
\* leaves the method; has_cycles and is_connected (step 10) only log.
BuildFromResults(evidence_output, context_output, causal_output) ==
    LET graph == BuiltGraph(evidence_output, context_output, causal_output)
        stats == GetStatsValue(graph.nodes, graph.edges)
    IN  /\ nodes' = graph.nodes
        /\ edges' = graph.edges
        /\ gres' = [op |-> "build", outcome |-> stats.outcome,
                    evidence_output |-> evidence_output,
                    context_output |-> context_output,
                    causal_chains |-> causal_output]
        /\ UNCHANGED vaultVars

\* _find_node_id over the four dicts of a build.
FindNodeIdCall(entity, evidence_output) ==
    /\ gres' = [op |-> "find_node_id", outcome |-> "ok", entity |-> entity,
                evidence_output |-> evidence_output,
                ret |-> FindNodeId(entity, NodeDicts(evidence_output))]
    /\ UNCHANGED <<nodes, edges, vaultVars>>

---------------------------------------------------------------------------
(* Bias Detector *)

SENSITIVE_ATTRIBUTES ==
    <<"age", "gender", "sex", "race", "ethnicity", "socioeconomic_status">>

Cold == <<"c", "o", "l", "d">>
Old == <<"o", "l", "d">>
Male == <<"M", "a", "l", "e">>
NoteText == <<"n", "o", "t", "e">>

\* A metadata value: an int or a str.
IntValue(n) == [kind |-> "int", value |-> n]
StrValue(text) == [kind |-> "str", value |-> text]

\* Case metadata given to check_graph.
Metadatas ==
    {EmptyMap,
     [age |-> IntValue(70)],
     [age |-> StrValue(Old)],
     [gender |-> StrValue(Male)],
     [sex |-> StrValue(<<"F">>)]}

\* One node as add_node stores it.
NodeOf(node_type, content, confidence) ==
    CausalNode(GenerateNodeId(content, node_type, confidence), node_type,
               content, confidence)

\* The nodes a graph given to check_graph may hold: two diagnoses, two
\* evidence documents and a symptom, each with the confidences it may carry.
CandidateNodes ==
    {NodeOf("diagnosis", Flu, c) : c \in {80, 90}}
    \cup {NodeOf("diagnosis", Cold, c) : c \in {50, 90}}
    \cup {NodeOf("evidence", DocText, 60), NodeOf("evidence", NoteText, 60),
          NodeOf("symptom", Tic, 85)}

\* The node maps add_node calls build from candidate nodes: one node per id.
BiasGraphs ==
    {[n \in {x.node_id : x \in S} |-> CHOOSE x \in S : x.node_id = n] :
         S \in {T \in SUBSET CandidateNodes :
                   \A x \in T, y \in T : x.node_id = y.node_id => x = y}}

DigitChars == <<"0", "1", "2", "3", "4", "5", "6", "7", "8", "9">>

\* str(n) of a natural number.
RECURSIVE IntToStr(_)
IntToStr(n) ==
    IF n < 10 THEN <<DigitChars[n + 1]>>
    ELSE Append(IntToStr(n \div 10), DigitChars[(n % 10) + 1])

\* str(value)
Str(v) == IF v.kind = "str" THEN v.value ELSE IntToStr(v.value)

\* int(text) of a text of decimal digits.
RECURSIVE DigitsToInt(_)
DigitsToInt(text) ==
    IF text = <<>> THEN 0
    ELSE 10 * DigitsToInt(Front(text))
         + (CHOOSE d \in 0..9 : DigitChars[d + 1] = Last(text))

\* int(value): the number, or ValueError for a text that is no number.
ToInt(v) ==
    IF v.kind = "int" THEN [outcome |-> "ok", ret |-> v.value]
    ELSE IF v.value # <<>>
            /\ \A i \in 1..Len(v.value) :
                   \E d \in 1..10 : DigitChars[d] = v.value[i]
    THEN [outcome |-> "ok", ret |-> DigitsToInt(v.value)]
    ELSE [outcome |-> "error", error |-> "ValueError"]

\* str(metadata.get(attr, "")).lower()
AttrVal(metadata, attr) ==
    IF attr \in DOMAIN metadata THEN ToLower(Str(metadata[attr])) ELSE <<>>

\* _check_demographic_usage: the nodes whose content holds a sensitive
\* attribute's value, and the greatest confidence among them.
DemographicUsage(ns, metadata) ==
    LET using == {n \in DOMAIN ns :
                     \E i \in 1..Len(SENSITIVE_ATTRIBUTES) :
                         /\ AttrVal(metadata, SENSITIVE_ATTRIBUTES[i]) # <<>>
                         /\ Contains(AttrVal(metadata, SENSITIVE_ATTRIBUTES[i]),
                                     ToLower(ns[n].content))}
    IN  [used_explicitly |-> using # {},
         impact_score |->
             IF using = {} THEN 0
             ELSE CHOOSE m \in {ns[n].confidence : n \in using} \cup {0} :
                      \A n \in using : ns[n].confidence <= m]

\* _check_premature_closure
CheckPrematureClosure(ns) ==
    LET evidence_nodes == FindNodesByType(ns, "evidence")
        diagnosis_nodes == FindNodesByType(ns, "diagnosis")
        max_diag_conf ==
            CHOOSE m \in {ns[n].confidence : n \in diagnosis_nodes} \cup {0} :
                /\ m >= 0
                /\ \A n \in diagnosis_nodes : ns[n].confidence <= m
    IN  IF diagnosis_nodes = {} THEN FALSE
        ELSE max_diag_conf > 80 /\ Cardinality(evidence_nodes) < 2

\* _generate_counterfactual_suggestions: the list, or the exception of
\* int(metadata["age"]).
CounterfactualSuggestions(metadata) ==
    LET gender ==
            IF "gender" \notin DOMAIN metadata THEN <<>>
            ELSE IF ToLower(Str(metadata.gender))
                        \in {<<"m", "a", "l", "e">>, <<"m">>}
            THEN <<[attribute |-> "gender", counterfactual |-> "female"]>>
            ELSE IF ToLower(Str(metadata.gender))
                        \in {<<"f", "e", "m", "a", "l", "e">>, <<"f">>}
            THEN <<[attribute |-> "gender", counterfactual |-> "male"]>>
            ELSE <<>>
    IN  IF "age" \notin DOMAIN metadata
        THEN [outcome |-> "ok", ret |-> gender]
        ELSE IF ToInt(metadata.age).outcome = "error"
        THEN [outcome |-> "error", error |-> ToInt(metadata.age).error]
        ELSE [outcome |-> "ok",
              ret |-> gender \o
                  (IF ToInt(metadata.age).ret < 18
                   THEN <<[attribute |-> "age", counterfactual |-> "35"]>>
                   ELSE IF ToInt(metadata.age).ret > 65
                   THEN <<[attribute |-> "age", counterfactual |-> "45"]>>
                   ELSE <<>>)]

\* check_graph: the BiasReport, or the exception of the counterfactuals.
BiasReport(ns, input_metadata) ==
    LET demographic_usage == DemographicUsage(ns, input_metadata)
        detected_types ==
            (IF demographic_usage.used_explicitly
                /\ demographic_usage.impact_score > 70
             THEN <<"high_demographic_impact">> ELSE <<>>)
            \o (IF CheckPrematureClosure(ns)
                THEN <<"premature_closure">> ELSE <<>>)
        counterfactuals == CounterfactualSuggestions(input_metadata)
        bias_score == IF detected_types # <<>>
                      THEN 50 + 10 * Len(detected_types) ELSE 0
    IN  IF counterfactuals.outcome = "error"
        THEN [outcome |-> "error", error |-> counterfactuals.error]
        ELSE [outcome |-> "ok",
              has_bias |-> detected_types # <<>>,
              bias_score |-> IF bias_score > 100 THEN 100 ELSE bias_score,
              detected_types |-> detected_types,
              counterfactuals |-> counterfactuals.ret]

CheckGraph(input_metadata) ==
    /\ gres' = [op |-> "check_graph", input_metadata |-> input_metadata]
                   @@ BiasReport(nodes, input_metadata)
    /\ UNCHANGED <<nodes, edges, vaultVars>>

---------------------------------------------------------------------------
(* Trail Extractor *)

\* The nodes of the graphs given to extract, in the order add_node got them.
TrailOrder ==
    <<GenerateNodeId(<<"s", "1">>, "symptom", 90),
      GenerateNodeId(<<"s", "2">>, "symptom", 90),
      GenerateNodeId(<<"d", "1">>, "diagnosis", 85),
      GenerateNodeId(<<"d", "2">>, "diagnosis", 85),
      GenerateNodeId(<<"d", "3">>, "diagnosis", 85),
      GenerateNodeId(<<"o", "1">>, "outcome", 75),
      GenerateNodeId(<<"o", "2">>, "outcome", 75)>>

TrailNode(id) ==
    CausalNode(id, id.prefix, id.digest[2],
               CASE id.prefix = "symptom" -> 90
                 [] id.prefix = "diagnosis" -> 85
                 [] OTHER -> 75)

\* Edges add_edge may have got, each source's edges in the order of
\* TrailOrder: symptom to diagnosis, diagnosis to outcome, and between the
\* first two diagnoses.
TrailLayerEdges ==
    {e \in {TrailOrder[i] : i \in 1..7} \X {TrailOrder[i] : i \in 1..7} :
        \/ e[1].prefix = "symptom" /\ e[2].prefix = "diagnosis"
        \/ e[1].prefix = "diagnosis" /\ e[2].prefix = "outcome"}

TrailBackEdges ==
    {<<TrailOrder[3], TrailOrder[4]>>, <<TrailOrder[4], TrailOrder[3]>>}

\* Graphs built by add_node and add_edge: some of the nodes, every layer
\* edge between them but at most one, and some of the diagnosis edges.
TrailGraphs ==
    {[nodes |-> [n \in ids |-> TrailNode(n)],
      edges |-> [e \in {x \in (TrailLayerEdges \ left) \cup back :
                           x[1] \in ids /\ x[2] \in ids}
                    |-> CausalEdge(e[1], e[2], "causes", 80, "strong")]] :
         ids \in {{TrailOrder[i] : i \in (1..s) \cup (3..(2 + d)) \cup (6..(5 + o))} :
                     s \in 0..2, d \in 0..3, o \in 0..2},
         left \in {{}} \cup {{e} : e \in TrailLayerEdges},
         back \in SUBSET TrailBackEdges}

\* Outputs of the producers for the graphs the consumers read after
\* build_from_results: a symptom, a diagnosis and an outcome, and links
\* that give each node at most one successor.
Cured == <<"c", "u", "r", "e", "d">>

ConsumeOutputs ==
    [symptoms : {<<Tic>>}, diagnoses : {<<>>, <<Flu>>}, treatments : {<<>>},
     outcomes : {<<>>, <<Cured>>}]

ConsumeLinks ==
    {[from |-> Tic, to |-> Flu, relationship |-> Causes, confidence |-> 90],
     [from |-> Flu, to |-> Cured, relationship |-> Causes, confidence |-> 90],
     [from |-> Cured, to |-> Flu, relationship |-> Causes, confidence |-> 90]}

ConsumeChains(n) == UNION {[1..k -> ConsumeLinks] : k \in 0..n}

\* The nodes of those graphs in the order build_from_results adds them:
\* symptoms, diagnoses, outcomes, evidence.
BuiltOrder ==
    <<GenerateNodeId(Tic, "symptom", 85), GenerateNodeId(Flu, "diagnosis", 80),
      GenerateNodeId(Cured, "outcome", 70),
      GenerateNodeId(Truncate(DocText, 100), "evidence", 60)>>

\* The nodes of ns in the order they were added.
NodeOrder(ns) == SelectSeq(TrailOrder \o BuiltOrder, LAMBDA n : n \in DOMAIN ns)

\* G[u] of networkx: the successors of u in the order their edges were added.
Successors_First(u, ns, es) ==
    LET all == SelectSeq(NodeOrder(ns), LAMBDA v : <<u, v>> \in DOMAIN es)
    IN  IF all = <<>> THEN <<>> ELSE <<all[1]>>

Successors(u, ns, es) ==
    SelectSeq(NodeOrder(ns), LAMBDA v : <<u, v>> \in DOMAIN es)

\* nx.all_simple_paths: depth first from the end of path through children,
\* a child on the path is passed over, the target ends a path.
RECURSIVE Walk(_, _, _, _, _)
Walk(path, children, target, ns, es) ==
    IF children = <<>> THEN <<>>
    ELSE IF \E i \in DOMAIN path : path[i] = Head(children)
    THEN Walk(path, Tail(children), target, ns, es)
    ELSE IF Head(children) = target
    THEN <<Append(path, target)>> \o Walk(path, Tail(children), target, ns, es)
    ELSE Walk(Append(path, Head(children)),
              Successors(Head(children), ns, es), target, ns, es)
         \o Walk(path, Tail(children), target, ns, es)

\* get_all_paths: no path for a node the graph does not hold.
GetAllPaths(source, target, ns, es) ==
    IF source \notin DOMAIN ns \/ target \notin DOMAIN ns THEN <<>>
    ELSE Walk(<<source>>, Successors(source, ns, es), target, ns, es)

\* find_nodes_by_type, in the order of the nodes.
NodesByType(ns, node_type) ==
    SelectSeq(NodeOrder(ns), LAMBDA n : ns[n].node_type = node_type)

RECURSIVE Concat(_)
Concat(lists) ==
    IF lists = <<>> THEN <<>> ELSE Head(lists) \o Concat(Tail(lists))

\* extract: all_paths, for symptom in symptom_nodes, for outcome in
\* outcome_nodes.
AllPaths(ns, es) ==
    LET symptoms == NodesByType(ns, "symptom")
        outcomes == NodesByType(ns, "outcome")
        PathData(s, o) ==
            LET paths == GetAllPaths(s, o, ns, es)
            IN  [i \in DOMAIN paths |->
                    [path |-> paths[i], start |-> s, end |-> o,
                     length |-> Len(paths[i])]]
    IN  Concat([i \in DOMAIN symptoms |->
                   Concat([j \in DOMAIN outcomes |->
                              PathData(symptoms[i], outcomes[j])])])

\* _generate_narrative: a part for each node of the path and for each edge
\* to the next node.
GenerateNarrative(ns, es, path) ==
    IF path = <<>> THEN <<"No reasoning path available.">>
    ELSE Concat([i \in DOMAIN path |->
            (IF path[i] \in DOMAIN ns
             THEN <<[part |-> ns[path[i]].node_type,
                     content |-> ns[path[i]].content,
                     confidence |-> ns[path[i]].confidence]>>
             ELSE <<>>)
            \o (IF /\ path[i] \in DOMAIN ns
                   /\ i < Len(path)
                   /\ <<path[i], path[i + 1]>> \in DOMAIN es
                THEN <<[part |-> "edge",
                        content |-> es[<<path[i], path[i + 1]>>].edge_type,
                        confidence |-> es[<<path[i], path[i + 1]>>].confidence]>>
                ELSE <<>>)])

\* _extract_key_steps on the node ids of all paths, one after another: the
\* nodes by falling number of occurrences, nodes of one number in the order
\* of first occurrence (sorted is stable); the first five.
KeyStepsOf(ns, flat) ==
    LET seen == {flat[i] : i \in DOMAIN flat}
        Frequency(n) == Cardinality({i \in DOMAIN flat : flat[i] = n})
        First(n) == CHOOSE i \in DOMAIN flat :
                        flat[i] = n /\ \A j \in 1..(i - 1) : flat[j] # n
        Before(m, n) ==
            \/ Frequency(m) > Frequency(n)
            \/ Frequency(m) = Frequency(n) /\ First(m) < First(n)
        sorted_nodes ==
            [k \in 1..Cardinality(seen) |->
                CHOOSE n \in seen :
                    Cardinality({m \in seen : Before(m, n)}) = k - 1]
    IN  [k \in 1..(IF Cardinality(seen) < 5 THEN Cardinality(seen) ELSE 5) |->
            [node_id |-> sorted_nodes[k],
             content |-> ns[sorted_nodes[k]].content,
             type |-> ns[sorted_nodes[k]].node_type,
             confidence |-> ns[sorted_nodes[k]].confidence,
             frequency |-> Frequency(sorted_nodes[k])]]

ExtractKeySteps(ns, all_paths) ==
    CHOOSE key_steps \in
        {KeyStepsOf(ns, flat) :
            flat \in {Concat([i \in DOMAIN all_paths |-> all_paths[i].path])}} :
        TRUE

\* The trail of extract for the paths all_paths.
TrailOf_(ns, es, all_paths) ==
    [outcome |-> "ok",
     num_paths |-> Len(all_paths),
     paths |-> Truncate(all_paths, 10),
     narratives |-> [i \in DOMAIN Truncate(all_paths, 5) |->
                        GenerateNarrative(ns, es, all_paths[i].path)],
     key_steps |-> ExtractKeySteps(ns, all_paths),
     graph_stats |-> GetStatsValue(ns, es)]

\* extract: the trail, or the exception of its closing get_stats.
ExtractValue(ns, es) ==
    IF GetStatsValue(ns, es).outcome = "error"
    THEN [outcome |-> "error", error |-> GetStatsValue(ns, es).error]
    ELSE CHOOSE trail \in {TrailOf_(ns, es, all_paths) :
                               all_paths \in {AllPaths(ns, es)}} : TRUE

Extract ==
    /\ gres' = [op |-> "extract"] @@ ExtractValue(nodes, edges)
    /\ UNCHANGED <<nodes, edges, vaultVars>>

\* node_data.get(key, default)
AttrGet(data, key, default) ==
    IF key \in DOMAIN data THEN data[key] ELSE default

\* export_graph_for_react_flow: a dict per node in the order of the nodes,
\* a dict per edge in the order of the sources and their successors.
ReactFlow(ns, es) ==
    [nodes |-> [i \in DOMAIN NodeOrder(ns) |->
                   [id |-> NodeOrder(ns)[i],
                    label |-> AttrGet(ns[NodeOrder(ns)[i]], "content", <<>>),
                    confidence |-> AttrGet(ns[NodeOrder(ns)[i]], "confidence", 0),
                    type |-> AttrGet(ns[NodeOrder(ns)[i]], "node_type", "default")]],
     edges |-> Concat([i \in DOMAIN NodeOrder(ns) |->
                   [j \in DOMAIN Successors(NodeOrder(ns)[i], ns, es) |->
                       LET source == NodeOrder(ns)[i]
                           target == Successors(source, ns, es)[j]
                       IN  [id |-> <<source, target>>,
                            source |-> source,
                            target |-> target,
                            label |-> AttrGet(es[<<source, target>>],
                                              "edge_type", ""),
                            confidence |-> AttrGet(es[<<source, target>>],
                                                   "confidence", 0),
                            strength |-> AttrGet(es[<<source, target>>],
                                                 "causal_strength", ""),
                            animated |-> AttrGet(es[<<source, target>>],
                                                 "confidence", 0) > 80]]])]

\* An export that keeps the layout position on the nodes of the graph.
ExportGraphForReactFlow_Positioned ==
    /\ gres.op # "none"
    /\ gres' = [op |-> "export_graph_for_react_flow", outcome |-> "ok",
                ret |-> ReactFlow(nodes, edges)]
    /\ nodes' = [n \in DOMAIN nodes |->
                    DictMerge(nodes[n], [position |-> <<0, 0>>])]
    /\ UNCHANGED <<edges, vaultVars>>

ExportGraphForReactFlow ==
    /\ gres.op # "none"
    /\ gres' = [op |-> "export_graph_for_react_flow", outcome |-> "ok",
                ret |-> ReactFlow(nodes, edges)]
    /\ UNCHANGED <<nodes, edges, vaultVars>>

\* generate_summary: the lines of the text, from the trail it is given.
Summary(graph_id, trail) ==
    [graph_id |-> graph_id,
     num_nodes |-> AttrGet(trail.graph_stats, "num_nodes", 0),
     num_edges |-> AttrGet(trail.graph_stats, "num_edges", 0),
     num_paths |-> trail.num_paths,
     connected |-> AttrGet(trail.graph_stats, "is_connected", FALSE),
     has_cycles |-> AttrGet(trail.graph_stats, "has_cycles", FALSE),
     key_steps |-> [i \in DOMAIN trail.key_steps |->
                       [content |-> trail.key_steps[i].content,
                        type |-> trail.key_steps[i].type,
                        confidence |-> trail.key_steps[i].confidence]]]

\* generate_summary(graph, trail) on the trail extract has returned.
GenerateSummary ==
    /\ gres.op \in {"extract", "generate_summary"}
    /\ gres.outcome = "ok"
    /\ \E trail \in {IF gres.op = "extract" THEN gres ELSE gres.trail} :
           gres' = [op |-> "generate_summary", outcome |-> "ok",
                    trail |-> trail, ret |-> Summary(GraphId, trail)]
    /\ UNCHANGED <<nodes, edges, vaultVars>>

---------------------------------------------------------------------------
(* LLM Manager *)

\* What one client.chat.completions.create call, with the lines after it,
\* ends in: a response, or an exception of one of the three except clauses.
ApiResults == {"response", "RateLimitError", "APIError", "Exception"}

\* generate up to the retry loop: ValueError for an input over the context
\* window; with range(max_retries) empty the loop body never runs and the
\* method ends without a return statement.
GenerateBegin(max_retries, input_too_long) ==
    /\ gres.op = "none"
    /\ gres' = [op |-> "generate", max_retries |-> max_retries,
                attempt |-> 0, calls |-> <<>>,
                pc |-> IF input_too_long \/ max_retries = 0
                       THEN "done" ELSE "call",
                outcome |-> IF input_too_long THEN "error"
                            ELSE IF max_retries = 0 THEN "ok" ELSE "none",
                ret |-> "None",
                error |-> IF input_too_long THEN "ValueError" ELSE "none"]
    /\ UNCHANGED <<nodes, edges, vaultVars>>

\* One pass of the loop body: the API call and its except clauses.
GenerateAttempt(result) ==
    /\ gres.op = "generate"
    /\ gres.pc = "call"
    /\ LET last == ~(gres.attempt < gres.max_retries - 1)
           wait == IF result = "RateLimitError" THEN Pow(2, gres.attempt)
                   ELSE IF result = "APIError" THEN 1
                   ELSE 0
           raised == result = "Exception"
                     \/ (result \in {"RateLimitError", "APIError"} /\ last)
       IN  gres' = [gres EXCEPT
                       !.calls = Append(@, [result |-> result,
                                            wait |-> IF raised THEN 0 ELSE wait]),
                       !.pc = IF result = "response" \/ raised THEN "done"
                              ELSE "sleep",
                       !.outcome = IF result = "response" THEN "ok"
                                   ELSE IF raised THEN "error" ELSE "none",
                       !.ret = IF result = "response" THEN "response" ELSE "None",
                       !.error = IF raised THEN result ELSE "none"]
    /\ UNCHANGED <<nodes, edges, vaultVars>>

\* time.sleep returns and the loop goes to the next attempt.
GenerateWake ==
    /\ gres.op = "generate"
    /\ gres.pc = "sleep"
    /\ gres' = [gres EXCEPT !.attempt = @ + 1, !.pc = "call"]
    /\ UNCHANGED <<nodes, edges, vaultVars>>

---------------------------------------------------------------------------
(* Orchestrator *)

\* response["output"] of a producer: a text that is the JSON of a value, or
\* a text json.loads rejects.
Json(value) == [json |-> TRUE, value |-> value]
Malformed == [json |-> FALSE]

\* json.loads
JsonLoads(output) ==
    IF output.json THEN [outcome |-> "ok", ret |-> output.value]
    ELSE [outcome |-> "error", error |-> "JSONDecodeError"]

\* str(value)
PyStr(value) == <<"str", value>>

EvidenceResponses == {Malformed} \cup {Json(ev) : ev \in EvidenceOutputs}

PipelineLinks ==
    {[from |-> Tic, to |-> Flu, relationship |-> Causes, confidence |-> 90]}

CausalResponses ==
    {Malformed}
    \cup {Json([causal_chains |-> cs, overall_confidence |-> 90]) :
              cs \in UNION {[1..k -> PipelineLinks] : k \in 0..MaxLinks}}

ContradictionResponses ==
    {Malformed,
     Json([contradictions |-> <<>>, overall_confidence |-> 90]),
     Json([contradictions |-> <<"c1">>, overall_confidence |-> 90])}

\* The vault writes of one run, at most: the input, four agent executions,
\* a causal step per link, the output.
FaultPositions == 0..(6 + MaxLinks)

\* EvidenceIngestionAgent.reason / output: the parsed object or the fallback.
ExtractedData(output) ==
    IF JsonLoads(output).outcome = "ok" THEN JsonLoads(output).ret
    ELSE [symptoms |-> <<>>, diagnoses |-> <<>>, treatments |-> <<>>,
          outcomes |-> <<>>]

\* " ".join(parts)
RECURSIVE Join(_)
Join(parts) ==
    IF parts = <<>> THEN <<>>
    ELSE IF Len(parts) = 1 THEN parts[1]
    ELSE Join(Front(parts)) \o <<" ">> \o Last(parts)

\* MedicalContextAgent.reason: no retrieval for an empty query.
ContextResult(extracted_data, retrieved) ==
    LET query == Join(extracted_data.symptoms \o extracted_data.diagnoses
                      \o extracted_data.treatments)
    IN  IF query = <<>> THEN [output |-> <<>>, confidence |-> 0]
        ELSE [output |-> retrieved,
              confidence |-> IF Len(retrieved) > 0 THEN 90 ELSE 30]

\* CausalInferenceAgent.reason / output
CausalResult(output) ==
    IF JsonLoads(output).outcome = "ok"
    THEN [causal_chains |-> JsonLoads(output).ret.causal_chains,
          confidence |-> JsonLoads(output).ret.overall_confidence]
    ELSE [causal_chains |-> <<>>, confidence |-> 50]

\* ContradictionResolutionAgent.reason / output: no producer call without
\* causal chains.
ContradictionResult(causal_chains, output) ==
    IF causal_chains = <<>> THEN [contradictions |-> <<>>, confidence |-> 100]
    ELSE IF JsonLoads(output).outcome = "ok"
    THEN [contradictions |-> JsonLoads(output).ret.contradictions,
          confidence |-> JsonLoads(output).ret.overall_confidence]
    ELSE [contradictions |-> <<>>, confidence |-> 50]

\* The row a log_* method builds for the store st.
RowFor(st, kind, a, agent_id, b) ==
    CASE kind = "Input" ->
             Input(NextId(st[kind]), a, b, ComputeHash(b), GetLastHash(st[kind]))
      [] kind = "AgentExecution" ->
             AgentExecution(NextId(st[kind]), a, agent_id, b,
                            GetLastHash(st[kind]))
      [] kind = "CausalStep" ->
             CausalStep(NextId(st[kind]), a, b, GetLastHash(st[kind]))
      [] kind = "PolicyCheck" ->
             PolicyCheck(NextId(st[kind]), a, b, GetLastHash(st[kind]))
      [] kind = "Output" ->
             Output(NextId(st[kind]), a, b, GetLastHash(st[kind]))

\* The run so far: the store, the vault writes made, the ids they returned
\* and the exception that ended it, if any.
RunStart(st) ==
    [store |-> st, writes |-> 0, failed |-> FALSE, error |-> "none",
     last_id |-> 0, last_kind |-> "none", last_fault |-> FALSE,
     input_id |-> 0, exec_id_causal |-> 0, exec_id_contradiction |-> 0,
     output_id |-> 0, built |-> FALSE, events |-> <<>>]

\* The run r after it entered the call of name: the calls of a run in the
\* order they were entered.
Call(r, name, agent_id) ==
    [r EXCEPT !.events = Append(@, <<name, agent_id>>)]

\* The vault method that writes a row of the kind.
LogMethod(kind) ==
    CASE kind = "Input" -> "log_input"
      [] kind = "AgentExecution" -> "log_agent_execution"
      [] kind = "CausalStep" -> "log_causal_step"
      [] kind = "PolicyCheck" -> "log_policy_check"
      [] kind = "Output" -> "log_output"

\* The statement Step executed after the run r0: r0 is evaluated once.
Then(r0, Step(_)) == CHOOSE after \in {Step(r) : r \in {r0}} : TRUE

\* One log_* call of the run: add and commit, or roll back and re-raise.
\* The write number fault_at meets a storage failure.
VaultWrite(r0, kind, a, agent_id, b, fault_at) ==
    LET Write(r) ==
            LET row == RowFor(r.store, kind, a, agent_id, b)
                fault == r.writes + 1 = fault_at
                refused ==
                    \/ fault
                    \/ /\ kind = "Input"
                       /\ \E x \in Rows(r.store[kind]) :
                              x.content_hash = row.content_hash
            IN  [r EXCEPT
                    !.store = IF refused THEN Rollback(r.store, kind, row)
                              ELSE Insert(r.store, kind, row),
                    !.writes = r.writes + 1,
                    !.failed = refused,
                    !.error = IF refused THEN "SQLAlchemyError" ELSE "none",
                    !.last_id = IF refused THEN 0 ELSE row.id,
                    !.last_kind = kind,
                    !.last_fault = fault,
                    !.events = Append(@, <<LogMethod(kind), agent_id>>)]
    IN  Then(r0, LAMBDA r : IF r.failed THEN r ELSE Write(r))

\* for chain in causal_chains: self.vault.log_causal_step(...)
RECURSIVE LogCausalSteps(_, _, _, _)
LogCausalSteps(r, causal_chains, execution_id, fault_at) ==
    IF causal_chains = <<>> THEN r
    ELSE VaultWrite(LogCausalSteps(r, Front(causal_chains), execution_id,
                                   fault_at),
                    "CausalStep", execution_id, "", Last(causal_chains).to,
                    fault_at)

\* An exception raised between vault writes ends the run.
Raise(r, error) == [r EXCEPT !.failed = TRUE, !.error = error]

\* calculate_evidence_quality(0.7, 0.9, 0.6), in hundredths.
EvidenceQuality ==
    LET quality == (70 * 50 + 60 * 30 + 90 * 20) \div 100
    IN  IF quality > 100 THEN 100 ELSE IF quality < 0 THEN 0 ELSE quality

\* calculate_reasoning_coherence(has_contradictions, is_complete_chain, 0.85)
ReasoningCoherence(has_contradictions, is_complete_chain) ==
    IF has_contradictions THEN 30
    ELSE IF ~is_complete_chain THEN 60
    ELSE 85

\* _generate_conclusion: the parts of the text.
GenerateConclusion(extracted_data, causal_chains, contradictions) ==
    LET parts ==
            (IF extracted_data.diagnoses # <<>> THEN <<"diagnoses">> ELSE <<>>)
            \o (IF extracted_data.symptoms # <<>> THEN <<"symptoms">> ELSE <<>>)
            \o (IF causal_chains # <<>> THEN <<"relationships">> ELSE <<>>)
            \o (IF contradictions # <<>> THEN <<"contradictions">> ELSE <<>>)
    IN  IF parts = <<>> THEN <<"insufficient">> ELSE parts

\* The statements of execute_pipeline in the order of the source: the vault
\* calls, the agents' execute calls and the engine calls.
PipelineSteps_BuildEarly ==
    <<<<"log_input", "">>,
      <<"execute", "evidence_ingestion">>,
      <<"log_agent_execution", "evidence_ingestion">>,
      <<"execute", "medical_context">>,
      <<"log_agent_execution", "medical_context">>,
      <<"execute", "causal_inference">>,
      <<"log_agent_execution", "causal_inference">>,
      <<"log_causal_step", "">>,
      <<"build_from_results", "">>,
      <<"execute", "contradiction_resolution">>,
      <<"log_agent_execution", "contradiction_resolution">>,
      <<"calculate_confidence", "">>,
      <<"check_graph", "">>,
      <<"extract", "">>,
      <<"log_output", "">>>>

PipelineSteps ==
    <<<<"log_input", "">>,
      <<"execute", "evidence_ingestion">>,
      <<"log_agent_execution", "evidence_ingestion">>,
      <<"execute", "medical_context">>,
      <<"log_agent_execution", "medical_context">>,
      <<"execute", "causal_inference">>,
      <<"log_agent_execution", "causal_inference">>,
      <<"log_causal_step", "">>,
      <<"execute", "contradiction_resolution">>,
      <<"log_agent_execution", "contradiction_resolution">>,
      <<"build_from_results", "">>,
      <<"calculate_confidence", "">>,
      <<"check_graph", "">>,
      <<"extract", "">>,
      <<"log_output", "">>>>

\* execute_pipeline up to the return or the exception that leaves it: the
\* statements in order, each skipped once an exception has been raised.
PipelineRun(st, source, input_text, metadata, evidence, retrieved, causal, contradiction, fault_at) ==
    LET extracted_data == ExtractedData(evidence)
        context == ContextResult(extracted_data, retrieved)
        causal_chains == CausalResult(causal).causal_chains
        contradictions ==
            ContradictionResult(causal_chains, contradiction).contradictions
        graph == BuiltGraph(extracted_data, context.output, causal_chains)
        stats == GetStatsValue(graph.nodes, graph.edges)
        llm_sum == 80 + CausalResult(causal).confidence
                   + ContradictionResult(causal_chains, contradiction).confidence
        coherence == ReasoningCoherence(contradictions # <<>>,
                                        causal_chains # <<>>)
        factors_valid ==
            /\ ValidFactor(EvidenceQuality)
            /\ ValidFactor(coherence)
            /\ 0 <= llm_sum /\ llm_sum <= 300
            /\ ValidFactor(context.confidence)
        \* three times the weighted sum, llm_confidence being llm_sum / 3
        overall == Frac(3 * WeightedSum(EvidenceQuality, coherence, 0,
                                        context.confidence)
                        + llm_sum * WEIGHTS.llm_confidence, 30000)
        overall_floor == (overall.num * 100) \div overall.den
        bias_report == BiasReport(graph.nodes, metadata)
        risk_flags ==
            (IF overall_floor < 70 THEN <<"LOW_CONFIDENCE">> ELSE <<>>)
            \o (IF contradictions # <<>>
                THEN <<"CONTRADICTIONS_FOUND">> ELSE <<>>)
            \o (IF context.output = <<>>
                THEN <<"NO_CONTEXT_AVAILABLE">> ELSE <<>>)
        LogInput_(r) ==
            Then(VaultWrite(r, "Input", source, "", input_text, fault_at),
                 LAMBDA w : IF w.failed THEN w
                            ELSE [w EXCEPT !.input_id = w.last_id])
        LogEvidence(r) ==
            VaultWrite(r, "AgentExecution", r.input_id, "evidence_ingestion",
                       PyStr(extracted_data), fault_at)
        LogContext(r) ==
            VaultWrite(r, "AgentExecution", r.input_id, "medical_context",
                       PyStr(context.output), fault_at)
        LogCausal(r) ==
            Then(VaultWrite(r, "AgentExecution", r.input_id, "causal_inference",
                            PyStr(causal_chains), fault_at),
                 LAMBDA w : IF w.failed THEN w
                            ELSE [w EXCEPT !.exec_id_causal = w.last_id])
        LogSteps(r) ==
            LogCausalSteps(r, causal_chains, r.exec_id_causal, fault_at)
        LogContradiction(r) ==
            Then(VaultWrite(r, "AgentExecution", r.input_id,
                            "contradiction_resolution", PyStr(contradictions),
                            fault_at),
                 LAMBDA w : IF w.failed THEN w
                            ELSE [w EXCEPT !.exec_id_contradiction = w.last_id])
        \* self.agents[agent_id].execute(...): the agents return their
        \* fallback where the producer fails them.
        Execute(r, agent_id) ==
            IF r.failed THEN r ELSE Call(r, "execute", agent_id)
        \* build_from_results ends with self.graph.get_stats()
        Build(r) ==
            IF r.failed THEN r
            ELSE IF stats.outcome = "error"
            THEN [Raise(Call(r, "build_from_results", ""), stats.error)
                     EXCEPT !.built = TRUE]
            ELSE [Call(r, "build_from_results", "") EXCEPT !.built = TRUE]
        Score(r) ==
            IF r.failed THEN r
            ELSE IF ~factors_valid
            THEN Raise(Call(r, "calculate_confidence", ""), "ValueError")
            ELSE Call(r, "calculate_confidence", "")
        \* risk_flags.append(...) ahead of the assignment risk_flags = []
        CheckBias(r) ==
            IF r.failed THEN r
            ELSE IF bias_report.outcome = "error"
            THEN Raise(Call(r, "check_graph", ""), bias_report.error)
            ELSE IF bias_report.has_bias
            THEN Raise(Call(r, "check_graph", ""), "UnboundLocalError")
            ELSE Call(r, "check_graph", "")
        \* extract, export_graph_for_react_flow, generate_summary: they
        \* read the graph and raise only where get_stats does, which
        \* build_from_results has met by then.
        ExtractTrail(r) ==
            IF r.failed THEN r ELSE Call(r, "extract", "")
        LogOutput_(r) ==
            Then(VaultWrite(r, "Output", r.exec_id_contradiction, "",
                            GenerateConclusion(extracted_data, causal_chains,
                                               contradictions),
                            fault_at),
                 LAMBDA w : IF w.failed THEN w
                            ELSE [w EXCEPT !.output_id = w.last_id])
        StepOf(step, r) ==
            CASE step = <<"log_input", "">> -> LogInput_(r)
              [] step = <<"log_agent_execution", "evidence_ingestion">> ->
                     LogEvidence(r)
              [] step = <<"log_agent_execution", "medical_context">> ->
                     LogContext(r)
              [] step = <<"log_agent_execution", "causal_inference">> ->
                     LogCausal(r)
              [] step = <<"log_causal_step", "">> -> LogSteps(r)
              [] step = <<"log_agent_execution", "contradiction_resolution">> ->
                     LogContradiction(r)
              [] step = <<"build_from_results", "">> -> Build(r)
              [] step = <<"calculate_confidence", "">> -> Score(r)
              [] step = <<"check_graph", "">> -> CheckBias(r)
              [] step = <<"extract", "">> -> ExtractTrail(r)
              [] step = <<"log_output", "">> -> LogOutput_(r)
              [] OTHER -> Execute(r, step[2])
        RECURSIVE RunTo(_)
        RunTo(i) ==
            IF i = 0 THEN RunStart(st)
            ELSE Then(RunTo(i - 1), LAMBDA r : StepOf(PipelineSteps[i], r))
        run == RunTo(Len(PipelineSteps))
    IN  [run |-> run,
         bias_report |-> bias_report,
         graph |-> graph,
         confidence |-> overall,
         confidence_level |-> LevelOf(overall_floor),
         risk_flags |-> risk_flags]

\* execute_pipeline: the vault keeps what was committed before an
\* exception; the except clause logs and re-raises.
ExecutePipeline(source, input_text, metadata, evidence, retrieved, causal, contradiction, fault_at) ==
    \E p \in {PipelineRun(store, source, input_text, metadata, evidence,
                           retrieved, causal, contradiction, fault_at)} :
        /\ store' = p.run.store
        /\ lastCall' = LogResult(p.run.last_kind,
                                 IF p.run.last_id = 0 THEN "error" ELSE "ok",
                                 p.run.last_id, p.run.last_fault)
        /\ nodes' = IF p.run.built THEN p.graph.nodes ELSE EmptyMap
        /\ edges' = IF p.run.built THEN p.graph.edges ELSE EmptyMap
        /\ gres' = [op |-> "execute_pipeline",
                    outcome |-> IF p.run.failed THEN "error" ELSE "ok",
                    error |-> p.run.error,
                    metadata |-> metadata,
                    malformed |-> <<~evidence.json, ~causal.json,
                                    ~contradiction.json>>,
                    fault_at |-> fault_at,
                    input_id |-> p.run.input_id,
                    output_id |-> p.run.output_id,
                    events |-> p.run.events,
                    bias_report |-> p.bias_report,
                    confidence |-> p.confidence,
                    confidence_level |-> p.confidence_level,
                    risk_flags |-> p.risk_flags]
        /\ UNCHANGED pending

---------------------------------------------------------------------------
(* Specifications *)

VaultInit ==
    /\ store = [k \in Kinds |-> <<>>]
    /\ lastCall = [op |-> "none", kind |-> "none", arg |-> 0, outcome |-> "none",
                   id |-> 0, fault |-> FALSE, trail |-> NoTrail]
    /\ pending = [run \in Runs |-> Idle]

GraphInit ==
    /\ nodes = EmptyMap
    /\ edges = EmptyMap
    /\ gres = [op |-> "none", outcome |-> "none"]

Init == VaultInit /\ GraphInit

VaultNext ==
    \/ \E s \in Sources, c \in Contents, f \in BOOLEAN : LogInput(s, c, f)
    \/ \E i \in Refs, t \in Texts, f \in BOOLEAN : LogAgentExecution(i, t, f)
    \/ \E e \in Refs, t \in Texts, f \in BOOLEAN : LogCausalStep(e, t, f)
    \/ \E e \in Refs, r \in PolicyResults, f \in BOOLEAN : LogPolicyCheck(e, r, f)
    \/ \E e \in Refs, t \in Texts, f \in BOOLEAN : LogOutput(e, t, f)
    \/ \E e \in 1..(MaxRef + 1) : GetReasoningTrail(e)

VaultSpec == Init /\ [][VaultNext]_vars

VaultConcNext ==
    \/ \E run \in Runs, k \in Kinds : ReadLastHash(run, k)
    \/ \E run \in Runs, f \in BOOLEAN : AddCommitClose(run, f)

VaultConcSpec == Init /\ [][VaultConcNext]_vars

GraphNext ==
    \/ \E c \in NodeContents, t \in NodeTypeArgs, conf \in ConfValues,
          id \in {NoNode} \cup ExplicitIds : AddNode(c, t, conf, id)
    \/ \E s \in NodeIds, t \in NodeIds, et \in EdgeTypeArgs, conf \in ConfValues,
          cs \in StrengthArgs : AddEdge(s, t, et, conf, cs)
    \/ \E th \in Thresholds : PruneLowConfidence(th)
    \/ HasCycles
    \/ IsConnected
    \/ GetStats
    \/ ToDictCall
    \/ FromDictCall

GraphSpec == Init /\ [][GraphNext]_vars

ScorerNext ==
    \/ \E e \in FactorValues, r \in FactorValues, l \in FactorValues,
          c \in FactorValues : Calculate(e, r, l, c)
    \/ \E cs \in Chains(MaxChain), d \in BOOLEAN : AggregateChain(cs, d)
    \/ \E x \in LevelInputs : GetLevel(x)

ScorerSpec == Init /\ [][ScorerNext]_vars

\* build_from_results starts from a new CausalGraph and reads nothing of an
\* earlier call, so a behaviour holds one call.
BuilderNext ==
    /\ gres.op = "none"
    /\ \E ev \in EvidenceOutputs, docs \in ContextOutputs,
          chains \in CausalChains(MaxLinks) : BuildFromResults(ev, docs, chains)

BuilderSpec == Init /\ [][BuilderNext]_vars

\* One build over the retrieved documents and the diagnoses.
EvidenceBuildNext ==
    /\ gres.op = "none"
    /\ \E docs \in DocLists(MaxDocs), diagnoses \in DiagnosisOrders :
           BuildFromResults([symptoms |-> <<>>, diagnoses |-> diagnoses,
                             treatments |-> <<>>, outcomes |-> <<>>],
                            docs, <<>>)

EvidenceBuildSpec == Init /\ [][EvidenceBuildNext]_vars

\* One call of the builder, or of its entity resolution, on new arguments.
ResolveNext ==
    /\ gres.op = "none"
    /\ \/ \E ev \in ResolveOutputs, chains \in ResolveChains(MaxLinks) :
              BuildFromResults(ev, <<>>, chains)
       \/ \E ev \in ResolveOutputs, entity \in ResolveEntities \cup {Flu} :
              FindNodeIdCall(entity, ev)

ResolveSpec == Init /\ [][ResolveNext]_vars

\* A graph that add_node and add_edge calls have filled, then read.
TrailInit ==
    /\ VaultInit
    /\ \E g \in TrailGraphs : nodes = g.nodes /\ edges = g.edges
    /\ gres = [op |-> "none", outcome |-> "none"]

TrailNext == Extract

TrailSpec == TrailInit /\ [][TrailNext]_vars

\* The consumers of the graph build_from_results has returned, in any order
\* and any number of times.
ConsumeNext ==
    \/ /\ gres.op = "none"
       /\ \E ev \in ConsumeOutputs, docs \in ContextOutputs,
             chains \in ConsumeChains(MaxLinks) :
              BuildFromResults(ev, docs, chains)
    \/ /\ gres.op # "none"
       /\ \/ \E m \in Metadatas : CheckGraph(m)
          \/ Extract
          \/ ExportGraphForReactFlow
          \/ GenerateSummary
          \/ GetStats
          \/ HasCycles
          \/ IsConnected
          \/ ToDictCall
          \/ FromDictCall

ConsumeSpec == Init /\ [][ConsumeNext]_vars

\* One generate call on a manager built with max_retries.
LLMNext ==
    \/ \E max_retries \in 0..MaxRetries, input_too_long \in BOOLEAN :
           GenerateBegin(max_retries, input_too_long)
    \/ \E result \in ApiResults : GenerateAttempt(result)
    \/ GenerateWake

LLMSpec == Init /\ [][LLMNext]_vars

\* A graph that add_node calls have filled, before any check of it.
BiasInit ==
    /\ VaultInit
    /\ nodes \in BiasGraphs
    /\ edges = EmptyMap
    /\ gres = [op |-> "none", outcome |-> "none"]

BiasNext == \E m \in Metadatas : CheckGraph(m)

BiasSpec == BiasInit /\ [][BiasNext]_vars

\* One run on an empty vault: a run reads nothing that an earlier run left
\* but the vault rows.
PipelineNext ==
    /\ gres.op = "none"
    /\ \E s \in Sources, c \in Contents, m \in Metadatas,
          ev \in EvidenceResponses, docs \in ContextOutputs,
          ca \in CausalResponses, co \in ContradictionResponses,
          f \in FaultPositions :
           ExecutePipeline(s, c, m, ev, docs, ca, co, f)

PipelineSpec == Init /\ [][PipelineNext]_vars

---------------------------------------------------------------------------
(* Vault: integrity verification, as the specification describes it *)

\* Recompute each row's content hash and compare the chain values: the first
\* row carries no prev_hash, every later row carries the value the write path
\* stores after its predecessors, and a stored content_hash matches its content.
VerifyIntegrity(table) ==
    \A i \in 1..Len(table) :
        /\ table[i].prev_hash = GetLastHash(SubSeq(table, 1, i - 1))
        /\ "content_hash" \in DOMAIN table[i]
               => table[i].content_hash = ComputeHash(table[i].content)

\* The column of a row that holds its content.
ContentField(kind) ==
    CASE kind = "Input" -> "content"
      [] kind = "AgentExecution" -> "agent_output"
      [] kind = "PolicyCheck" -> "result"
      [] OTHER -> "conclusion"

\* The tables obtained from one table by altering the content of one row, or by
\* removing one row that has a successor.
Tampered(kind, table) ==
    {[table EXCEPT ![i] = [@ EXCEPT ![ContentField(kind)] = b]] :
         <<i, b>> \in {x \in (1..Len(table)) \X ArgsB(kind) :
                          table[x[1]][ContentField(kind)] # x[2]}}
    \cup {SubSeq(table, 1, i - 1) \o SubSeq(table, i + 1, Len(table)) :
              i \in 1..(Len(table) - 1)}

---------------------------------------------------------------------------
(* Claims about the vault *)

\* C1: for each record kind the chain is unbroken: the first record has an
\* empty prevHash, and every later record's prevHash is a hash (not empty)
\* that is determined by the immediately preceding record of the same kind.
C1_ChainUnbroken ==
    \A k \in Kinds : \A i \in 1..Len(store[k]) :
        IF i = 1
        THEN store[k][i].prev_hash = None
        ELSE /\ store[k][i].prev_hash # None
             /\ \A j \in 2..Len(store[k]) :
                    store[k][j].prev_hash = store[k][i].prev_hash
                        => store[k][j - 1] = store[k][i - 1]

\* C2: integrity verification tells every tampered table from the untampered
\* one: the stored table verifies, and no table with one row's content altered
\* or one row (that has a successor) removed verifies.
C2_TamperDetected ==
    \A k \in Kinds :
        /\ VerifyIntegrity(store[k])
        /\ \A t \in Tampered(k, store[k]) : ~VerifyIntegrity(t)

\* C3: under concurrent writers no two records of the same kind store the
\* same prevHash.
C3_DistinctPrevHash ==
    \A k \in Kinds : \A i, j \in 1..Len(store[k]) :
        i # j => store[k][i].prev_hash # store[k][j].prev_hash

\* C4: the vault is append-only: every step keeps each kind's earlier records,
\* with all their fields, as a prefix of the kind's records, so no record is
\* changed or dropped and no count decreases.
C4_AppendOnly ==
    [][\A k \in Kinds :
           /\ Len(store'[k]) >= Len(store[k])
           /\ SubSeq(store'[k], 1, Len(store[k])) = store[k]]_vars

\* A trail was read from a vault that holds two agent executions.
C4_Witness ==
    /\ Len(store["AgentExecution"]) >= 2
    /\ lastCall.op = "trail"
    /\ lastCall.outcome = "ok"

C6_NewIdEveryCall ==
    (lastCall.op = "log" /\ ~lastCall.fault)
        => /\ lastCall.outcome = "ok"
           /\ store[lastCall.kind] # <<>>
           /\ lastCall.id = store[lastCall.kind][Len(store[lastCall.kind])].id
           /\ \A i \in 1..(Len(store[lastCall.kind]) - 1) :
                  store[lastCall.kind][i].id # lastCall.id

\* C7: getReasoningTrail fails exactly when no AgentExecution record has the
\* id asked for, whatever other records reference it; it leaves the vault
\* unchanged; and for an existing id it returns, with no output exactly when
\* no Output record references the id.
C7_TrailNotFound ==
    [][lastCall'.op = "trail"
          => /\ store' = store
             /\ lastCall'.outcome \in {"ok", "error"}
             /\ lastCall'.outcome = "error"
                    <=> ~\E r \in Rows(store["AgentExecution"]) : r.id = lastCall'.arg
             /\ lastCall'.outcome = "ok"
                    => (lastCall'.trail.output = "None"
                           <=> ~\E o \in Rows(store["Output"]) :
                                   o.execution_id = lastCall'.arg)]_vars

\* A trail was asked for an id that causal steps and an output reference but
\* that no agent execution carries.
C7_Witness ==
    /\ lastCall.op = "trail"
    /\ lastCall.outcome = "error"
    /\ \E r \in Rows(store["CausalStep"]) : r.execution_id = lastCall.arg
    /\ \E o \in Rows(store["Output"]) : o.execution_id = lastCall.arg

---------------------------------------------------------------------------
(* Claims about the causal graph *)

\* C8: addEdge with a source or target that is no node of the graph fails and
\* leaves the node set and the edge set as they were; with both endpoints
\* present it returns (source, target), the node set is unchanged, and the
\* edge is stored with the given fields.
C8_AddEdgeEndpoints ==
    [][gres'.op = "add_edge"
          => IF gres'.source \notin DOMAIN nodes \/ gres'.target \notin DOMAIN nodes
             THEN /\ gres'.outcome = "error"
                  /\ nodes' = nodes
                  /\ edges' = edges
             ELSE /\ gres'.outcome = "ok"
                  /\ gres'.ret = <<gres'.source, gres'.target>>
                  /\ nodes' = nodes
                  /\ gres'.ret \in DOMAIN edges'
                  /\ edges'[gres'.ret] = CausalEdge(gres'.source, gres'.target,
                                             gres'.edge_type, gres'.confidence,
                                             gres'.causal_strength)
                  /\ \A e \in DOMAIN edges \ {gres'.ret} :
                         e \in DOMAIN edges' /\ edges'[e] = edges[e]]_vars

\* addEdge was refused for a target that is no node, from a source that is one.
C8_Witness ==
    /\ gres.op = "add_edge"
    /\ gres.outcome = "error"
    /\ gres.source \in DOMAIN nodes
    /\ gres.target \notin DOMAIN nodes
    /\ Cardinality(DOMAIN nodes) >= 2

\* C9 as stated: after addNode with a (type, content) pair and no explicit id,
\* the graph holds exactly one node for that pair.
C9_OneNodePerPair ==
    (gres.op = "add_node" /\ gres.node_id = NoNode)
        => Cardinality({n \in DOMAIN nodes :
                            /\ nodes[n].node_type = gres.node_type
                            /\ nodes[n].content = gres.content}) = 1

\* C9 as amended: addNode with a (type, content) pair and no explicit id stores
\* the pair under the id it returns; when a node with a derived id already
\* holds the pair, the call returns that node's id and the node count does not
\* grow; and exactly one node with a derived id holds the pair afterwards
\* (a node stored under an explicit id may hold the same pair as well).
C9_AddNodeIdempotent ==
    [][(gres'.op = "add_node" /\ gres'.node_id = NoNode)
          => /\ gres'.ret \in DOMAIN nodes'
             /\ nodes'[gres'.ret].node_type = gres'.node_type
             /\ nodes'[gres'.ret].content = gres'.content
             /\ \A n \in DOMAIN nodes \ ExplicitIds :
                    (/\ nodes[n].node_type = gres'.node_type
                     /\ nodes[n].content = gres'.content)
                        => /\ gres'.ret = n
                           /\ Cardinality(DOMAIN nodes') = Cardinality(DOMAIN nodes)
             /\ Cardinality({n \in DOMAIN nodes' \ ExplicitIds :
                                 /\ nodes'[n].node_type = gres'.node_type
                                 /\ nodes'[n].content = gres'.content}) = 1]_vars

\* addNode without an explicit id was called for a pair that a node with a
\* derived id and a node with an explicit id both hold.
C9_Witness ==
    /\ gres.op = "add_node"
    /\ gres.node_id = NoNode
    /\ Cardinality({n \in DOMAIN nodes :
                        /\ nodes[n].node_type = gres.node_type
                        /\ nodes[n].content = gres.content}) = 2

\* C10: every stored node confidence and every stored edge confidence lies in
\* [0,1] (0..100 hundredths).
C10_ConfidenceInRange ==
    /\ \A n \in DOMAIN nodes : nodes[n].confidence \in 0..100
    /\ \A e \in DOMAIN edges : edges[e].confidence \in 0..100

\* C11: pruneBelowConfidence(threshold) removes exactly the edges whose
\* confidence is strictly below the threshold and returns their number; every
\* remaining edge has confidence >= threshold and is unchanged, the node set
\* is unchanged, and a second call with the same threshold right after the
\* first returns 0.
C11_PruneExact ==
    [][gres'.op = "prune"
          => /\ DOMAIN edges \ DOMAIN edges'
                    = {e \in DOMAIN edges : edges[e].confidence < gres'.threshold}
             /\ gres'.ret = Cardinality(DOMAIN edges \ DOMAIN edges')
             /\ \A e \in DOMAIN edges' :
                    /\ edges'[e].confidence >= gres'.threshold
                    /\ e \in DOMAIN edges
                    /\ edges'[e] = edges[e]
             /\ nodes' = nodes
             /\ (gres.op = "prune" /\ gres.threshold = gres'.threshold)
                    => gres'.ret = 0]_vars

\* A prune removed the only edge and left its endpoints in the graph.
C11_Witness ==
    /\ gres.op = "prune"
    /\ gres.ret = 1
    /\ edges = EmptyMap
    /\ Cardinality(DOMAIN nodes) = 2

\* C12: for every graph reachable through addNode, addEdge and prune,
\* deserializing its serialized document gives an equal graph: the same
\* graph id and creation time, the same node ids with the same node fields,
\* and the same (source, target) edges with the same edge fields.
C12_RoundTrip ==
    FromDict(ToDict(ThisGraph)) = ThisGraph

\* C28: from_dict does not modify the document it is given: after
\* from_dict(doc) the document still holds every node's id and every edge's
\* source and target, so deserializing the same document again succeeds and
\* yields an equal graph.
C28_DocumentUnchanged ==
    gres.op = "from_dict"
        => /\ gres.outcome = "ok"
           /\ gres.doc = gres.given
           /\ gres.ret = FromDict(gres.doc)

\* A directed cycle: nodes p[1], ..., p[k] with an edge from each to the next
\* and from the last to the first.
C20_DirectedCycle ==
    \E k \in 1..Cardinality(DOMAIN nodes) :
        \E p \in [1..k -> DOMAIN nodes] :
            \A i \in 1..k : <<p[i], p[(i % k) + 1]>> \in DOMAIN edges

\* Weakly connected: no edge-closed cut, i.e. every proper non-empty part of
\* the nodes has an edge to or from the rest.
C20_WeaklyConnected ==
    \A S \in SUBSET DOMAIN nodes :
        (S # {} /\ S # DOMAIN nodes)
            => \E e \in DOMAIN edges : (e[1] \in S) # (e[2] \in S)

\* C20: on every graph reachable through addNode, addEdge and prune, the
\* graph without nodes included, hasCycles, isWeaklyConnected and stats
\* return a value and do not raise; hasCycles is true exactly when the graph
\* has a directed cycle and isWeaklyConnected exactly when the graph is
\* weakly connected.
C20_DiagnosticsTotal ==
    /\ gres.op = "has_cycles"
           => gres.outcome = "ok" /\ (gres.ret <=> C20_DirectedCycle)
    /\ gres.op = "is_connected"
           => /\ gres.outcome = "ok"
              /\ DOMAIN nodes # {} => (gres.ret <=> C20_WeaklyConnected)
    /\ gres.op = "stats"
           => /\ gres.outcome = "ok"
              /\ gres.ret.has_cycles <=> C20_DirectedCycle
              /\ DOMAIN nodes # {} => (gres.ret.is_connected <=> C20_WeaklyConnected)

---------------------------------------------------------------------------
(* Claims about the graph builder *)

\* C16: for every proposed link whose from and to both resolve to nodes and
\* whose confidence is at least 0.3, the graph that buildFromResults returns
\* has an edge from the resolved source to the resolved target, whatever
\* other links the proposal list holds.
C16_ResolvedLinkKept ==
    (gres.op = "build" /\ gres.outcome = "ok")
        => \A i \in 1..Len(gres.causal_chains) :
               LET source_id == FindNodeId(gres.causal_chains[i].from,
                                           NodeDicts(gres.evidence_output))
                   target_id == FindNodeId(gres.causal_chains[i].to,
                                           NodeDicts(gres.evidence_output))
               IN  (/\ source_id # NoNode
                    /\ target_id # NoNode
                    /\ gres.causal_chains[i].confidence >= 30)
                       => <<source_id, target_id>> \in DOMAIN edges

\* C24: the graph buildFromResults returns holds exactly min(3, number of
\* documents) Evidence nodes, one per document of the first three with that
\* document's score as confidence, and, when a diagnosis exists, each
\* Evidence node has a Supports edge of confidence 0.7 to the first
\* Diagnosis node.
C24_EvidencePerDocument ==
    (gres.op = "build" /\ gres.outcome = "ok")
        => LET top == IF Len(gres.context_output) < 3
                      THEN Len(gres.context_output) ELSE 3
               evidence == {n \in DOMAIN nodes :
                               nodes[n].node_type = "evidence"}
               first_diagnosis ==
                   GenerateNodeId(gres.evidence_output.diagnoses[1],
                                  "diagnosis", 80)
           IN  /\ Cardinality(evidence) = top
               /\ \A i \in 1..top :
                      \E n \in evidence :
                          /\ nodes[n].content
                                 = SubSeq(gres.context_output[i].text, 1,
                                          IF Len(gres.context_output[i].text) < 100
                                          THEN Len(gres.context_output[i].text)
                                          ELSE 100)
                          /\ nodes[n].confidence = gres.context_output[i].score
               /\ gres.evidence_output.diagnoses # <<>>
                      => \A n \in evidence :
                             /\ <<n, first_diagnosis>> \in DOMAIN edges
                             /\ edges[<<n, first_diagnosis>>].edge_type
                                    = "supports"
                             /\ edges[<<n, first_diagnosis>>].confidence = 70

\* C25: a proposed link whose from side or to side cannot be resolved to an
\* entity of the pools, a missing or empty field included, adds no edge and
\* raises no error: every edge of the built graph comes from a link whose
\* two fields are present and not empty and name entities of the pools.
C25_UnresolvedLinkSkipped ==
    gres.op = "build"
        => LET names == {NodeDicts(gres.evidence_output)[k].key :
                            k \in DOMAIN NodeDicts(gres.evidence_output)}
               Named(chain, key) ==
                   /\ key \in DOMAIN chain
                   /\ chain[key] # <<>>
                   /\ \E name \in names :
                          Contains(ToLower(chain[key]), ToLower(name))
           IN  \A e \in DOMAIN edges :
                   \E i \in DOMAIN gres.causal_chains :
                       /\ Named(gres.causal_chains[i], "from")
                       /\ Named(gres.causal_chains[i], "to")

\* C29: an entity string equal, letter case aside, to the name of an entity
\* of the pools resolves to the node of that entity, also when the string
\* is a substring of another entity's name.
C29_ExactMatchFirst ==
    gres.op = "find_node_id"
        => \A k \in DOMAIN NodeDicts(gres.evidence_output) :
               ToLower(NodeDicts(gres.evidence_output)[k].key)
                       = ToLower(gres.entity)
                   => gres.ret = NodeDicts(gres.evidence_output)[k].value

---------------------------------------------------------------------------
(* Claims about the bias detector *)

\* C17: checkGraph reports premature_closure in detectedTypes exactly when
\* the graph has a Diagnosis node, the highest Diagnosis confidence is
\* above 0.8 and fewer than 2 Evidence nodes exist, whatever the case
\* metadata is.
C17_PrematureClosure ==
    gres.op = "check_graph"
        => /\ gres.outcome = "ok"
           /\ (\E i \in 1..Len(gres.detected_types) :
                   gres.detected_types[i] = "premature_closure")
                  <=> (/\ \E n \in DOMAIN nodes :
                              /\ nodes[n].node_type = "diagnosis"
                              /\ nodes[n].confidence > 80
                       /\ Cardinality({n \in DOMAIN nodes :
                                           nodes[n].node_type = "evidence"}) < 2)

---------------------------------------------------------------------------
(* Claims about the confidence scorer *)

\* C13: calculate fails with a range error when any of the four factors is
\* outside [0,1]; otherwise it returns 0.40*e + 0.30*r + 0.20*l + 0.10*c
\* (ten-thousandths here), a value in [0,1] that does not decrease when one
\* factor grows and the other three stay fixed.
C13_Calculate ==
    gres.op = "calculate"
        => IF \E v \in {gres.e, gres.r, gres.l, gres.c} : v < 0 \/ v > 100
           THEN gres.outcome = "error"
           ELSE /\ gres.outcome = "ok"
                /\ gres.ret = 40 * gres.e + 30 * gres.r + 20 * gres.l + 10 * gres.c
                /\ gres.ret \in 0..10000
                /\ \A x \in {v \in FactorValues : v \in 0..100} :
                       /\ x >= gres.e
                              => WeightedSum(x, gres.r, gres.l, gres.c) >= gres.ret
                       /\ x >= gres.r
                              => WeightedSum(gres.e, x, gres.l, gres.c) >= gres.ret
                       /\ x >= gres.l
                              => WeightedSum(gres.e, gres.r, x, gres.c) >= gres.ret
                       /\ x >= gres.c
                              => WeightedSum(gres.e, gres.r, gres.l, x) >= gres.ret

\* calculate returned for four factors in range that are not all equal.
C13_Witness ==
    /\ gres.op = "calculate"
    /\ gres.outcome = "ok"
    /\ gres.e = 100 /\ gres.r = 50 /\ gres.l = 0 /\ gres.c = 100
    /\ gres.ret = 6500

\* The undecayed score and the decayed score of the chain of the last
\* aggregate_chain call, as the claim gives them.
C14_Least ==
    CHOOSE m \in {gres.confidences[i] : i \in DOMAIN gres.confidences} :
        \A i \in DOMAIN gres.confidences : m <= gres.confidences[i]

C14_Minimum == Frac(C14_Least, 100)

C14_Expected ==
    IF gres.use_decay
    THEN Frac(C14_Least * Pow(95, Len(gres.confidences)),
              100 * Pow(100, Len(gres.confidences)))
    ELSE C14_Minimum

\* C14 as stated: for a non-empty chain of confidences in [0,1],
\* aggregateChain without decay returns the minimum and with decay the
\* minimum times 0.95^length, and the decayed score is strictly less than
\* the undecayed score.
C14_DecayStrictlyLess ==
    (gres.op = "aggregate_chain" /\ gres.confidences # <<>>)
        => /\ gres.ret = C14_Expected
           /\ gres.use_decay => FracLess(gres.ret, C14_Minimum)

\* C14 as amended: for a non-empty chain of confidences in [0,1],
\* aggregateChain without decay returns the minimum and with decay the
\* minimum times 0.95^length; the decayed score is never greater than the
\* undecayed score, strictly less when the minimum is positive, and equal
\* to it (both 0) when the minimum is 0.
C14_ChainAggregate ==
    (gres.op = "aggregate_chain" /\ gres.confidences # <<>>)
        => /\ gres.ret = C14_Expected
           /\ gres.use_decay
                  => /\ ~FracLess(C14_Minimum, gres.ret)
                     /\ C14_Least > 0
                            => FracLess(gres.ret, C14_Minimum)
                     /\ C14_Least = 0
                            => gres.ret = C14_Minimum /\ gres.ret.num = 0

\* aggregate_chain with decay returned for a chain whose minimum is positive
\* and is not its first element.
C14_Witness ==
    /\ gres.op = "aggregate_chain"
    /\ gres.use_decay
    /\ Len(gres.confidences) >= 2
    /\ C14_Least > 0
    /\ C14_Least < gres.confidences[1]

\* C15: classify gives every confidence exactly one level: high from 0.80,
\* medium from 0.60 up to 0.80, low from 0.40 up to 0.60, insufficient below
\* 0.40; the values 0.80, 0.60 and 0.40 belong to the higher band.
C15_Classify ==
    gres.op = "get_level"
        => /\ gres.ret \in {"high", "medium", "low", "insufficient"}
           /\ gres.ret = "high" <=> gres.confidence >= 80
           /\ gres.ret = "medium"
                  <=> (60 <= gres.confidence /\ gres.confidence < 80)
           /\ gres.ret = "low"
                  <=> (40 <= gres.confidence /\ gres.confidence < 60)
           /\ gres.ret = "insufficient" <=> gres.confidence < 40

\* classify was called on the boundary value 0.80.
C15_Witness ==
    /\ gres.op = "get_level"
    /\ gres.confidence = 80
    /\ gres.ret = "high"

---------------------------------------------------------------------------
(* Claims about the pipeline *)

\* C18: when a producer returns malformed JSON, its output degrades to the
\* empty structure and executePipeline still builds the graph, computes the
\* diagnostics and returns a result instead of raising (no storage failure
\* and no case metadata being involved).
C18_MalformedDegrades ==
    (/\ gres.op = "execute_pipeline"
     /\ \E i \in 1..3 : gres.malformed[i]
     /\ gres.fault_at = 0
     /\ gres.metadata = EmptyMap)
        => gres.outcome = "ok"

\* C19: when a vault write fails during executePipeline, the error reaches
\* the caller and the vault holds no partial trail of the run: no Input,
\* AgentExecution or CausalStep record of the run stays in the store
\* without the run's Output record.
C19_NoPartialTrail ==
    (/\ gres.op = "execute_pipeline"
     /\ gres.error = "SQLAlchemyError")
        => /\ gres.outcome = "error"
           /\ LET executions == {a \in Rows(store["AgentExecution"]) :
                                    a.input_id = gres.input_id}
                  has_output == \E a \in executions :
                                    \E o \in Rows(store["Output"]) :
                                        o.execution_id = a.id
              IN  has_output
                  \/ /\ \A i \in Rows(store["Input"]) : i.id # gres.input_id
                     /\ executions = {}
                     /\ store["CausalStep"] = <<>>

\* The positions in the run's sequence of calls at which the call was entered.
C21_At(name, agent_id) ==
    {i \in DOMAIN gres.events : gres.events[i] = <<name, agent_id>>}

\* Every call at a position of A was entered before every call at a position
\* of B, and none of B was entered without one of A.
C21_Precedes(A, B) ==
    /\ B # {} => A # {}
    /\ \A i \in A, j \in B : i < j

C21_Producers ==
    <<"evidence_ingestion", "medical_context", "causal_inference",
      "contradiction_resolution">>

C21_Engine ==
    <<"build_from_results", "calculate_confidence", "check_graph", "extract">>

C21_VaultWrites ==
    {"log_input", "log_agent_execution", "log_causal_step",
     "log_policy_check", "log_output"}

\* C21: in every executePipeline run the input is logged before any producer
\* is invoked; the producers run in the order evidence, context, causal,
\* contradiction, each once, and each producer's AgentExecution record is
\* written before the next producer starts; graph build, confidence scoring,
\* bias check and trail extraction follow in that order, only after all four
\* producers have run; log_output is the last vault write and happens at
\* most once per run.
C21_EventOrder ==
    gres.op = "execute_pipeline"
        => /\ \A k \in 1..4 :
                  /\ C21_Precedes(C21_At("log_input", ""),
                                  C21_At("execute", C21_Producers[k]))
                  /\ Cardinality(C21_At("execute", C21_Producers[k])) <= 1
                  /\ C21_Precedes(C21_At("execute", C21_Producers[k]),
                                  C21_At(C21_Engine[1], ""))
           /\ \A k \in 1..3 :
                  /\ C21_Precedes(C21_At("execute", C21_Producers[k]),
                                  C21_At("execute", C21_Producers[k + 1]))
                  /\ C21_Precedes(
                         C21_At("log_agent_execution", C21_Producers[k]),
                         C21_At("execute", C21_Producers[k + 1]))
                  /\ C21_At("execute", C21_Producers[k + 1]) # {}
                         => \E a \in Rows(store["AgentExecution"]) :
                                /\ a.agent_id = C21_Producers[k]
                                /\ a.input_id = gres.input_id
                  /\ C21_Precedes(C21_At(C21_Engine[k], ""),
                                  C21_At(C21_Engine[k + 1], ""))
           /\ Cardinality(C21_At("log_output", "")) <= 1
           /\ \A j \in C21_At("log_output", ""), i \in DOMAIN gres.events :
                  gres.events[i][1] \in C21_VaultWrites => i <= j

\* A run went through every statement: the four producers, a causal step,
\* the four engine calls and log_output, and returned.
C21_Witness ==
    /\ gres.op = "execute_pipeline"
    /\ gres.outcome = "ok"
    /\ gres.output_id # 0
    /\ C21_At("log_causal_step", "") # {}
    /\ \A k \in 1..4 :
           /\ C21_At("execute", C21_Producers[k]) # {}
           /\ C21_At("log_agent_execution", C21_Producers[k]) # {}
           /\ C21_At(C21_Engine[k], "") # {}
    /\ C21_At("log_output", "") # {}

\* C22: whenever the bias detector reports has_bias = true (and no vault
\* write fails), executePipeline still goes on through trail extraction and
\* persistence and returns a result whose risk flags hold a BIAS_DETECTED
\* entry naming the detected types.
C22_BiasIsFlagged ==
    (/\ gres.op = "execute_pipeline"
     /\ gres.fault_at = 0
     /\ \E i \in DOMAIN gres.events : gres.events[i] = <<"check_graph", "">>
     /\ gres.bias_report.outcome = "ok"
     /\ gres.bias_report.has_bias)
        => /\ gres.outcome = "ok"
           /\ \E i \in DOMAIN gres.events : gres.events[i] = <<"extract", "">>
           /\ gres.output_id # 0
           /\ \E o \in Rows(store["Output"]) : o.id = gres.output_id
           /\ \E i \in DOMAIN gres.risk_flags :
                  gres.risk_flags[i]
                      = <<"BIAS_DETECTED", gres.bias_report.detected_types>>

\* C30: after a pipeline run that completed with at least one causal chain,
\* there is an execution id of that run for which get_reasoning_trail
\* returns both the run's causal steps and the run's final output.
C30_StepsAndOutputJoined ==
    (/\ gres.op = "execute_pipeline"
     /\ gres.outcome = "ok"
     /\ store["CausalStep"] # <<>>)
        => \E a \in Rows(store["AgentExecution"]) :
               /\ a.input_id = gres.input_id
               /\ FindExecution(store, a.id) # <<>>
               /\ Len(TrailOf(store, a.id).steps) = Len(store["CausalStep"])
               /\ TrailOf(store, a.id).output # "None"

---------------------------------------------------------------------------
(* Claims about the trail extractor *)

\* The simple paths of the graph from a Symptom node to an Outcome node:
\* sequences of nodes that start at a Symptom node, follow edges, repeat no
\* node and end at an Outcome node.
RECURSIVE C26_Grow(_, _)
C26_Grow(paths, k) ==
    IF k = 0 THEN {}
    ELSE paths
         \cup C26_Grow({Append(p, n) : <<p, n>> \in
                           {x \in paths \X DOMAIN nodes :
                               /\ <<x[1][Len(x[1])], x[2]>> \in DOMAIN edges
                               /\ \A i \in DOMAIN x[1] : x[1][i] # x[2]}},
                       k - 1)

C26_SimplePaths ==
    {p \in C26_Grow({<<n>> : n \in {m \in DOMAIN nodes :
                                       nodes[m].node_type = "symptom"}},
                    Cardinality(DOMAIN nodes)) :
        nodes[p[Len(p)]].node_type = "outcome"}

---------------------------------------------------------------------------
(* Claims about the LLM manager *)

\* C23: every generate call ends by returning a response or by raising an
\* error, after at most maxRetries attempts: a rate-limit error is retried
\* after 2^attempt seconds and an API error after a wait, until the attempt
\* cap is reached, and then the last error is raised; any other error is
\* raised at its first occurrence.
C23_ReturnsOrRaises ==
    gres.op = "generate"
        => /\ Len(gres.calls) <= gres.max_retries
           /\ gres.pc = "done"
                  => \/ gres.outcome = "ok" /\ gres.ret = "response"
                     \/ gres.outcome = "error"
           /\ \A i \in DOMAIN gres.calls :
                  /\ gres.calls[i].result = "response"
                         => i = Len(gres.calls) /\ gres.outcome = "ok"
                  /\ gres.calls[i].result = "Exception"
                         => /\ i = Len(gres.calls)
                            /\ gres.outcome = "error"
                            /\ gres.error = "Exception"
                  /\ gres.calls[i].result \in {"RateLimitError", "APIError"}
                         => IF i = gres.max_retries
                            THEN /\ gres.outcome = "error"
                                 /\ gres.error = gres.calls[i].result
                            ELSE /\ gres.outcome = "none" \/ i < Len(gres.calls)
                                 /\ gres.calls[i].result = "RateLimitError"
                                        => gres.calls[i].wait = Pow(2, i - 1)

---------------------------------------------------------------------------
(* Claims about the consumers of the graph *)

\* The calls whose only argument is the graph, or the graph and the case
\* metadata.
C27_Readers ==
    {"check_graph", "extract", "export_graph_for_react_flow", "stats",
     "has_cycles", "is_connected", "to_dict"}

\* C27: once build_from_results has returned, the graph is never modified
\* again: check_graph, extract, export_graph_for_react_flow,
\* generate_summary, the stats and the serialization leave the node set,
\* the edge set and every field of every node and edge unchanged, and a
\* consumer called again on the graph (with the same metadata) gives the
\* result it gave before.
C27_GraphFrozen ==
    [][gres.op # "none"
           => /\ nodes' = nodes
              /\ edges' = edges
              /\ (/\ gres'.op = gres.op
                  /\ gres.op \in C27_Readers
                  /\ gres.op = "check_graph"
                         => gres'.input_metadata = gres.input_metadata)
                     => gres' = gres]_vars

\* The summary of a trail with a path was made on a built graph with
\* edges: build_from_results, extract and generate_summary have run.
C27_Witness ==
    /\ gres.op = "generate_summary"
    /\ gres.ret.num_paths > 0
    /\ gres.ret.num_edges > 1
    /\ DOMAIN edges # {}

====
